---- MODULE Spec2Model ----
(***************************************************************************)
(* Rental lifecycle of rentify: the route handlers that create a rental    *)
(* request, update its status, create a payment and confirm a payment,     *)
(* run as concurrent request-scoped handlers over one shared database.     *)
(* Every handler is cut at the awaits that touch rows another handler can  *)
(* write; a handler's position is pc[p], its request and the rows it has   *)
(* read so far are loc[p].  A handler that has built its response is at    *)
(* "done" with the response and the error it caught in loc[p]; sending the *)
(* response frees the slot.                                                *)
(***************************************************************************)
EXTENDS Integers, Sequences, FiniteSets, TLC

(* ------------------------------ bounds --------------------------------- *)
\* rental requests ever created
MaxRequests == 2
\* handler invocations in a behaviour of Spec (handlers interleave)
MaxRaceOps == 3
\* handler invocations in a behaviour of SpecSeq (one handler at a time)
MaxOps == 4
\* handler invocations in a behaviour of SpecDeep (one handler at a time)
MaxDeepOps == 5
\* handler invocations in a behaviour of SpecReturns (handlers interleave)
MaxReturnOps == 3
\* handler and page invocations in a behaviour of SpecFlow (one at a time)
MaxFlowOps == 3
\* calls of NotificationService operations in a behaviour of SpecNotify
MaxNotifyCalls == 2
\* the longest range, in days, of which SpecPrice takes every whole number of hours
MaxQuoteDays == 10
\* rental request rows in the table SpecLimit queries
MaxLimitRows == 3
\* the latest start or end, in days, of the ranges SpecOverlap compares
MaxOverlapDay == 4
\* notifications the server creates for the user of the browser
MaxPushed == 2
\* sessions (a page load with a stored token, or a login) at the browser
MaxLogins == 2
\* calls of fetchNotificationsWithCache waiting for their fetch at a time
MaxPolls == 2
\* the browser's clock, in units of 15 s
MaxClientTime == 4

(* ------------------------ fixed rows of the database ------------------- *)
Users == {"owner", "alice", "bob"}
\* a request without a token, or with a token verifyToken rejects
NoUser == "anon"
Actors == Users \cup {NoUser}
Products == {"p1"}
\* an id that names no row
NoProduct == "p0"
product_user_id(product_id) == "owner"
\* the rental_price of the product in Init
ListPrice == 10

\* two handler slots: the handlers in flight at the same time
Procs == {1, 2}
HoursPerDay == 24
\* start_date / end_date values, in hours: three consecutive midnights
Dates == {0, HoursPerDay, 2 * HoursPerDay}
\* the <<start_date, end_date>> pairs requests are submitted with
SubmittedRanges ==
  {se \in Dates \X Dates : se[1] < se[2]}
    \cup {<<HoursPerDay, HoursPerDay>>, <<2 * HoursPerDay, HoursPerDay>>}
RentalPeriods == {"daily"}
PaymentMethods == {"card", "paypal", "apple_pay", "google_pay", "offline"}
\* the methods the model submits: one online, the offline one, one invalid
SubmittedMethods == {"card", "offline", "cash"}
\* the amount a createPayment body carries: none (0), or one that differs from
\* every price
SubmittedAmounts == {0, 1}
PaymentStatuses == {"completed", "failed", "refunded"}
\* the payment statuses the model submits, one of them invalid
SubmittedPaymentStatuses == {"completed", "failed", "bogus"}
\* the statuses of the overlap query
BlockingStatuses == {"accepted", "active", "paid"}
\* the statuses of the unavailableRequests query
UnavailableStatuses == {"accepted", "paid"}
TerminalStatuses == {"completed", "returned", "rejected", "cancelled"}
\* the statuses the status-update handler branches on
UpdateStatuses == {"accepted", "rejected", "cancelled", "returned", "completed"}
\* the bodies createDamageAssessment is called with: one the schema accepts,
\* one it rejects
DamageBodies == {"valid", "invalid"}
NotificationTypes == {"new_request", "approved", "rejected",
                      "payment_completed", "payment_confirmed"}

\* the rental_period values of the switch, and one it does not know
AllRentalPeriods == {"hourly", "daily", "weekly", "monthly", "quarterly", "yearly",
                     "fortnightly"}
\* product.rental_price values
Rates == {0, 10, 20}
\* the lengths, in hours, of the ranges SpecPrice computes a price for: every
\* one up to MaxQuoteDays days, and those around a month, a quarter and a year
QuoteHours ==
  (1..(MaxQuoteDays * HoursPerDay))
    \cup {d * HoursPerDay + h : d \in {30, 90, 365}, h \in {-1, 0, 1}}

\* the notify<Event> operations of NotificationService, by notification type
NotifyEvents == NotificationTypes \cup {"return_confirmed", "invoice_emailed",
                                        "conflicting_rejected"}

VARIABLES
  products,        \* product_id -> [status, rental_price]
  rentalRequests,  \* sequence of RentalRequest rows, id = index
  payments,        \* sequence of Payment rows, id = index
  invoices,        \* rental request id -> [invoice_status, paid_date]
  notifications,   \* notification type -> rows created
  paymentIntents,  \* payment intents created at the payment provider
  productReturns,  \* sequence of ProductReturn rows, id = index
  damageAssessments, \* sequence of DamageAssessment rows, id = index
  quote,           \* a price computation: its inputs and its results
  notifyCall,      \* a call of a NotificationService operation and its outcome
  overlapCall, \* a run of the overlap filter on one stored row: its inputs and its result
  limitCall,       \* a requestLimitInfo computation: the table it reads and its results
  \* the browser: AuthProvider, SocketManager and what they talk to
  mounted,         \* AuthProvider is mounted
  socketManager,   \* SocketManager is rendered under AuthProvider (AuthWrapper)
  token,           \* localStorage holds 'token' and 'user'
  user,            \* AuthProvider state user
  logins,          \* sessions started so far
  clientNotifications,      \* AuthProvider state notifications: ids, first to last
  unreadNotificationsCount, \* AuthProvider state unreadNotificationsCount
  ownerPendingCount,        \* AuthProvider state pendingRequestsCount
  notificationCacheRef,     \* notificationCacheRef.current
  windowSocket,    \* window.socket
  socketRef,       \* SocketManager's socketRef.current
  socketConnected, \* the session's socket is connected
  handlerSocket,   \* the socket handleNotification is registered on
  polls,           \* calls of fetchNotificationsWithCache waiting for their fetch
  nextPoll,        \* when the setInterval callback is due, -1 when no interval is set
  unreadFetch,     \* a fetchUnreadNotificationsCount is in flight
  pendingFetch,    \* a fetchPendingRequestsCount is in flight
  serverNotifications,      \* ids of the user's notifications at the server
  pushes,          \* 'notification' events emitted on the session's socket, not yet delivered
  received,        \* ids handleNotification has handled since login
  clientTime,      \* Date.now() in the browser
  notifierUp,      \* whether createNotification succeeds in this behaviour
  clock,           \* the value new Date() returns: one tick per request received
  pc,              \* proc -> position in its handler
  loc              \* proc -> the handler's request, local values and response

\* the browser
web == <<mounted, socketManager, token, user, logins, clientNotifications,
         unreadNotificationsCount, ownerPendingCount, notificationCacheRef, windowSocket,
         socketRef, socketConnected, handlerSocket, polls, nextPoll, unreadFetch,
         pendingFetch, serverNotifications, pushes, received, clientTime>>
vars == <<products, rentalRequests, payments, invoices, notifications, paymentIntents,
          productReturns, damageAssessments, quote, notifyCall, limitCall, overlapCall, web,
          notifierUp, clock, pc, loc>>
\* the tables of the return workflow
returns == <<productReturns, damageAssessments>>
\* the records of the calls checked on their own
calls == <<quote, notifyCall, limitCall, overlapCall, web>>
db == <<products, rentalRequests, payments, invoices, notifications, paymentIntents>>

(* ------------------------------ responses ------------------------------ *)
NoResp == [status |-> 0, message |-> ""]
Resp(s, m) == [status |-> s, message |-> m]
AuthRequired == Resp(401, "Authentication required")
DuplicatePayment == Resp(400, "Payment already exists for this rental request")
AssessmentExists == Resp(400, "Damage assessment already exists for this return")

NoQuote == [rate |-> 0, start_date |-> 0, end_date |-> 0, rental_period |-> "",
            rentalPeriod |-> 0, price |-> 0]
(* ----------------------- values of the browser ------------------------- *)
\* the user who logs in at the browser
ClientUser == "alice"
\* user === null
NoSession == "null"
\* socket handles: null, or the number of the socket
NoSocket == 0
\* CACHE_DURATION = 30000 ms, in units of 15 s
CACHE_DURATION == 2
\* limit=20 of the fetch and slice(0, 20) of the merge
PageLimit == 20
\* notificationCacheRef.current === null
NoCache == [data |-> <<>>, unreadCount |-> 0, timestamp |-> 0, filled |-> FALSE]

\* no page is loaded in the browser
WebUnloaded ==
  /\ mounted = FALSE
  /\ socketManager = TRUE
  /\ token = FALSE
  /\ user = NoSession
  /\ logins = 0
  /\ clientNotifications = <<>>
  /\ unreadNotificationsCount = 0
  /\ ownerPendingCount = 0
  /\ notificationCacheRef = NoCache
  /\ windowSocket = NoSocket
  /\ socketRef = NoSocket
  /\ socketConnected = FALSE
  /\ handlerSocket = NoSocket
  /\ polls = <<>>
  /\ nextPoll = 0 - 1
  /\ unreadFetch = FALSE
  /\ pendingFetch = FALSE
  /\ serverNotifications = {}
  /\ pushes = {}
  /\ received = {}
  /\ clientTime = 0

NoOverlapCall == [start_date |-> 0, end_date |-> 0, requestStartDate |-> 0,
                  requestEndDate |-> 0, selected |-> FALSE, computed |-> FALSE]
NoLimitCall == [rows |-> <<>>, pendingRequestsCount |-> 0, recentAcceptedRequests |-> 0,
                isAtLimit |-> FALSE, computed |-> FALSE]
NoCall == [event |-> "", created |-> FALSE, emailed |-> FALSE, thrown |-> FALSE]

NoLoc == [op |-> "none", actor |-> NoUser, id |-> 0, product_id |-> NoProduct,
          start_date |-> 0, end_date |-> 0, rental_period |-> "",
          status |-> "", snap |-> "", txn |-> 0, amount |-> 0, ranges |-> {},
          activeRentals |-> {},
          error |-> "", resp |-> NoResp]

(* ------------------------------ helpers -------------------------------- *)
RequestIds == 1..Len(rentalRequests)
PaymentIds == 1..Len(payments)
ReturnIds == 1..Len(productReturns)
AssessmentIds == 1..Len(damageAssessments)
NoInvoice == [invoice_status |-> "none", paid_date |-> 0]

\* product.rental_price
rental_price(product_id) == products[product_id].rental_price

\* Math.floor(a / b) for b > 0
Floor(a, b) == a \div b

\* Math.ceil(a / b) for b > 0
Ceil(a, b) == -((-a) \div b)

\* the divisor of timeDiff in each case of the rental_period switch, in hours
UnitHours(rental_period) ==
  CASE rental_period = "hourly"    -> 1
    [] rental_period = "daily"     -> HoursPerDay
    [] rental_period = "weekly"    -> HoursPerDay * 7
    [] rental_period = "monthly"   -> HoursPerDay * 30
    [] rental_period = "quarterly" -> HoursPerDay * 90
    [] rental_period = "yearly"    -> HoursPerDay * 365
    [] OTHER                       -> HoursPerDay

\* the factor on product.rental_price in each case of the switch
UnitMultiplier(rental_period) ==
  CASE rental_period = "weekly"    -> 7
    [] rental_period = "monthly"   -> 30
    [] rental_period = "quarterly" -> 90
    [] rental_period = "yearly"    -> 365
    [] OTHER                       -> 1

rentalPeriod(start_date, end_date, rental_period) ==
  Ceil(end_date - start_date, UnitHours(rental_period))

price(rate, start_date, end_date, rental_period) ==
  rentalPeriod(start_date, end_date, rental_period) * (rate * UnitMultiplier(rental_period))

\* the overlap query with gte in place of gt in its first clause: a request
\* that ends where the new one starts counts as overlapping
OverlapClauseClosed(r, requestStartDate, requestEndDate) ==
  \/ (r.start_date <= requestStartDate /\ r.end_date >= requestStartDate)
  \/ (r.start_date < requestEndDate /\ r.end_date >= requestEndDate)
  \/ (r.start_date >= requestStartDate /\ r.end_date <= requestEndDate)

\* the OR of the three AND clauses of the overlappingRequests query
OverlapClause(r, requestStartDate, requestEndDate) ==
  \/ (r.start_date <= requestStartDate /\ r.end_date > requestStartDate)
  \/ (r.start_date < requestEndDate /\ r.end_date >= requestEndDate)
  \/ (r.start_date >= requestStartDate /\ r.end_date <= requestEndDate)

overlappingRequests(product_id, requestStartDate, requestEndDate) ==
  {i \in RequestIds :
     /\ rentalRequests[i].product_id = product_id
     /\ rentalRequests[i].status \in BlockingStatuses
     /\ OverlapClause(rentalRequests[i], requestStartDate, requestEndDate)}

\* payment.findUnique({ where: { rental_request_id } }): the column is unique
existingPayment(rental_request_id) ==
  {i \in PaymentIds : payments[i].rental_request_id = rental_request_id}

\* the Payment table with its unique index on rental_request_id left out
UniqueViolationNoIndex(rental_request_id) == FALSE

\* tx.payment.create on a rental_request_id that already has a row: the unique
\* index findUnique relies on rejects the insert (Prisma error P2002)
UniqueViolation(rental_request_id) == existingPayment(rental_request_id) # {}

\* a createPayment that takes the amount from the request body
paymentAmountFromBody(l) == l.amount

\* paymentAmount = rentalRequest.price
paymentAmount(l) == rentalRequests[l.id].price

\* a createPayment that asks the provider for an intent whatever the method
AfterFindAlwaysIntent(payment_method) == "cp_intent"

\* if (payment_method === 'offline') ... else ...: the call that follows the checks
AfterFind(payment_method) ==
  IF payment_method = "offline" THEN "cp_create" ELSE "cp_intent"

\* damageAssessment.findUnique({ where: { product_return_id } }): the column is unique
existingAssessment(product_return_id) ==
  {i \in AssessmentIds : damageAssessments[i].product_return_id = product_return_id}

\* a createDamageAssessment that takes the customer of the rental for the owner
returnOwnerIsCustomer(id) ==
  rentalRequests[productReturns[id].rental_request_id].customer_id

\* existingReturn.rentalRequest.product.user_id
returnOwner(id) ==
  product_user_id(rentalRequests[productReturns[id].rental_request_id].product_id)

\* a create handler without its check of the calculated values
notPositiveSkipped(period, amount) == FALSE

\* rentalPeriod <= 0 || price <= 0
notPositive(period, amount) == period <= 0 \/ amount <= 0

\* a create handler without its own-product guard
selfRentAllowed(product_id, actor) == FALSE

\* product.user_id === decoded.userId
selfRent(product_id, actor) == product_user_id(product_id) = actor

\* a create handler that stores the request as pending
newRentalRequestPending(l) ==
  [product_id |-> l.product_id, customer_id |-> l.actor,
   start_date |-> l.start_date, end_date |-> l.end_date,
   status |-> "pending",
   price |-> price(rental_price(l.product_id), l.start_date, l.end_date, l.rental_period),
   rental_period |-> rentalPeriod(l.start_date, l.end_date, l.rental_period)]

\* the data of rentalRequest.create
newRentalRequest(l) ==
  [product_id |-> l.product_id, customer_id |-> l.actor,
   start_date |-> l.start_date, end_date |-> l.end_date,
   status |-> "accepted",
   price |-> price(rental_price(l.product_id), l.start_date, l.end_date, l.rental_period),
   rental_period |-> rentalPeriod(l.start_date, l.end_date, l.rental_period)]

\* isOwner of the status update handler
isOwner(id, actor) == product_user_id(rentalRequests[id].product_id) = actor

\* a status update handler that takes every caller for the customer
isCustomerAnyone(id, actor) == TRUE

\* isCustomer of the status update handler
isCustomer(id, actor) == rentalRequests[id].customer_id = actor

\* PUT /api/payments without its owner check
isOfflineByOtherSkipped(id, actor) == FALSE

\* the guard of PUT /api/payments: the payment is offline and the caller is
\* not the owner of the product
isOfflineByOther(id, actor) ==
  /\ payments[id].payment_method = "offline"
  /\ product_user_id(rentalRequests[payments[id].rental_request_id].product_id) # actor

\* NotificationService.notify<Event>: one row when createNotification succeeds,
\* none when it throws; the error is logged and swallowed either way
Notify(n, type) == IF notifierUp THEN [n EXCEPT ![type] = @ + 1] ELSE n

\* a handler whose notification try block has no catch: a failed dispatch
\* ends in the handler's outer catch block
DispatchedOrFailed(r) == IF notifierUp THEN r ELSE Resp(500, "Internal server error")

\* the response r a handler builds after its notification try/catch: the catch
\* block logs the error and goes on
Dispatched(r) == r

\* the handler of slot p, having caught err (or nothing), responds with r
Done(p, err, r) ==
  /\ pc' = [pc EXCEPT ![p] = "done"]
  /\ loc' = [loc EXCEPT ![p].error = err, ![p].resp = r]

Goto(p, label) ==
  /\ pc' = [pc EXCEPT ![p] = label]
  /\ UNCHANGED loc

\* no response is waiting to be sent
Quiet == \A q \in Procs : pc[q] # "done"
\* the handler of slot p is at label and takes its next step
At(p, label) == pc[p] = label /\ Quiet

\* a new invocation takes the lowest idle handler slot
CanBegin(p) ==
  /\ At(p, "idle")
  /\ \A q \in Procs : q < p => pc[q] # "idle"

\* the first stretch of a handler ends in a guard that rejects the request;
\* l holds what the handler has read of the request up to that guard.  Such a
\* request has written nothing and is answered at once: it is taken when no
\* other handler is in flight
Reject(p, l, err, r) ==
  /\ \A q \in Procs \ {p} : pc[q] = "idle"
  /\ clock' = clock + 1
  /\ pc' = [pc EXCEPT ![p] = "done"]
  /\ loc' = [loc EXCEPT ![p] = [l EXCEPT !.error = err, !.resp = r]]

\* the first stretch of a handler passes its guards; the handler goes on at label
Admit(p, l, label) ==
  /\ clock' = clock + 1
  /\ pc' = [pc EXCEPT ![p] = label]
  /\ loc' = [loc EXCEPT ![p] = l]

(* ------------------------------- Init ---------------------------------- *)
Init ==
  /\ products = [q \in Products |-> [status |-> "available", rental_price |-> ListPrice]]
  /\ rentalRequests = <<>>
  /\ payments = <<>>
  /\ invoices = [i \in 1..MaxRequests |-> NoInvoice]
  /\ notifications = [t \in NotificationTypes |-> 0]
  /\ paymentIntents = 0
  /\ productReturns = <<>>
  /\ damageAssessments = <<>>
  /\ quote = NoQuote
  /\ notifyCall = NoCall
  /\ limitCall = NoLimitCall
  /\ overlapCall = NoOverlapCall
  /\ WebUnloaded
  /\ notifierUp \in BOOLEAN
  /\ clock = 0
  /\ pc = [p \in Procs |-> "idle"]
  /\ loc = [p \in Procs |-> NoLoc]

(* --------------- POST /api/rental-requests (create) -------------------- *)
\* token checks, user lookup, date check, product.findUnique
CreateBegin(p, n) ==
  /\ CanBegin(p)
  /\ clock < n
  /\ Cardinality(RequestIds) + Cardinality({q \in Procs : pc[q] \in {"cr_overlap", "cr_insert"}})
       < MaxRequests
  /\ \E actor \in Actors :
       LET la == [NoLoc EXCEPT !.op = "create", !.actor = actor] IN
       IF actor = NoUser
         THEN Reject(p, la, "", AuthRequired)
       ELSE \E se \in SubmittedRanges, rp \in RentalPeriods :
         LET s == se[1]
             e == se[2]
             ld == [la EXCEPT !.start_date = s, !.end_date = e, !.rental_period = rp] IN
         IF s >= e
           THEN Reject(p, ld, "", Resp(400, "End date must be after start date"))
         ELSE \E product_id \in Products \cup {NoProduct} :
           LET l == [ld EXCEPT !.product_id = product_id] IN
           IF product_id \notin Products
             THEN Reject(p, l, "", Resp(404, "Product not found"))
           ELSE Admit(p, [l EXCEPT !.snap = products[product_id].status], "cr_overlap")
  /\ UNCHANGED <<db, notifierUp, returns, calls>>

\* rentalRequest.findMany (overlap), then the guards up to the positive-value check
CreateOverlap(p) ==
  /\ At(p, "cr_overlap")
  /\ LET l == loc[p] IN
     IF overlappingRequests(l.product_id, l.start_date, l.end_date) # {}
       THEN Done(p, "", Resp(409, "This product is not available for the selected dates. Please choose different dates."))
     ELSE IF l.snap # "available"
       THEN Done(p, "", Resp(400, "Product is not available for rent"))
     ELSE IF selfRent(l.product_id, l.actor)
       THEN Done(p, "", Resp(400, "You cannot rent your own product"))
     ELSE IF notPositive(rentalPeriod(l.start_date, l.end_date, l.rental_period),
                         price(rental_price(l.product_id), l.start_date, l.end_date, l.rental_period))
       THEN Done(p, "", Resp(400, "Invalid rental period or calculated price"))
     ELSE Goto(p, "cr_insert")
  /\ UNCHANGED <<db, clock, notifierUp, returns, calls>>

\* rentalRequest.create, notifyNewRentalRequest, 201
CreateInsert(p) ==
  /\ At(p, "cr_insert")
  /\ LET l == loc[p] IN
     \/ /\ rentalRequests' = Append(rentalRequests, newRentalRequest(l))
        /\ notifications' = Notify(notifications, "new_request")
        /\ pc' = [pc EXCEPT ![p] = "done"]
        /\ loc' = [loc EXCEPT ![p].id = Len(rentalRequests) + 1,
                              ![p].resp = Dispatched(Resp(201, "Rental request created successfully"))]
     \/ /\ Done(p, "PrismaError", Resp(500, "Failed to create rental request"))
        /\ UNCHANGED <<rentalRequests, notifications>>
  /\ UNCHANGED <<products, payments, invoices, paymentIntents, clock, notifierUp, returns, calls>>

(* ------------- PUT /api/rental-requests/[id] (status update) ----------- *)
\* token checks, rentalRequest.findUnique, isOwner / isCustomer, body parse
UpdateBegin(p, n) ==
  /\ CanBegin(p)
  /\ clock < n
  /\ \E actor \in Actors :
       LET la == [NoLoc EXCEPT !.op = "update", !.actor = actor] IN
       IF actor = NoUser
         THEN Reject(p, la, "", AuthRequired)
       ELSE \E id \in 1..MaxRequests :
         LET li == [la EXCEPT !.id = id] IN
         IF id \notin RequestIds
           THEN Reject(p, li, "", Resp(404, "Rental request not found"))
         ELSE IF ~isOwner(id, actor) /\ ~isCustomer(id, actor)
           THEN Reject(p, li, "", Resp(403, "Unauthorized to update this rental request"))
         ELSE \E status \in UpdateStatuses \cup {"bogus"} :
           LET l == [li EXCEPT !.status = status,
                               !.product_id = rentalRequests[id].product_id] IN
           IF status \notin UpdateStatuses
             THEN Reject(p, l, "ZodError", Resp(400, "Validation error"))
           ELSE Admit(p, l, "us_update")
  /\ UNCHANGED <<db, notifierUp, returns, calls>>

\* NotificationService.notifyRequestApproved / notifyRequestRejected by status
StatusNotification(n, status) ==
  IF status = "accepted" THEN Notify(n, "approved")
  ELSE IF status = "rejected" THEN Notify(n, "rejected")
  ELSE n

\* rentalRequest.update({ data: { status } })
UpdateStatus(p) ==
  /\ At(p, "us_update")
  /\ LET l == loc[p] IN
     \/ /\ rentalRequests' = [rentalRequests EXCEPT ![l.id].status = l.status]
        /\ IF l.status \in {"rejected", "cancelled", "returned", "completed"}
             THEN Goto(p, "us_product") /\ UNCHANGED notifications
             ELSE /\ notifications' = StatusNotification(notifications, l.status)
                  /\ Done(p, "", Dispatched(Resp(200, "Rental request updated successfully")))
     \/ /\ Done(p, "PrismaError", Resp(500, "Failed to update rental request"))
        /\ UNCHANGED <<rentalRequests, notifications>>
  /\ UNCHANGED <<products, payments, invoices, paymentIntents, clock, notifierUp, returns, calls>>

\* product.update({ data: { status: 'available' } }), notification, 200
UpdateProduct(p) ==
  /\ At(p, "us_product")
  /\ LET l == loc[p] IN
     \/ /\ products' = [products EXCEPT ![l.product_id].status = "available"]
        /\ notifications' = StatusNotification(notifications, l.status)
        /\ Done(p, "", IF l.status = "rejected"
                         THEN Dispatched(Resp(200, "Rental request updated successfully"))
                         ELSE Resp(200, "Rental request updated successfully"))
     \/ /\ Done(p, "PrismaError", Resp(500, "Failed to update rental request"))
        /\ UNCHANGED <<products, notifications>>
  /\ UNCHANGED <<rentalRequests, payments, invoices, paymentIntents, clock, notifierUp, returns, calls>>

(* ------------------- POST /api/payments (createPayment) ---------------- *)
\* token checks, body checks, rentalRequest.findUnique, customer check
PaymentBegin(p, n) ==
  /\ CanBegin(p)
  /\ clock < n
  /\ \E actor \in Actors :
       LET la == [NoLoc EXCEPT !.op = "pay", !.actor = actor] IN
       IF actor = NoUser
         THEN Reject(p, la, "AppError", AuthRequired)
       ELSE \E payment_method \in SubmittedMethods :
         LET lm == [la EXCEPT !.status = payment_method] IN
         IF payment_method \notin PaymentMethods
           THEN Reject(p, lm, "AppError", Resp(400, "Invalid payment method"))
         ELSE \E id \in 1..MaxRequests :
           LET l == [lm EXCEPT !.id = id] IN
           IF id \notin RequestIds
             THEN Reject(p, l, "AppError", Resp(404, "Rental request not found"))
           ELSE IF rentalRequests[id].customer_id # actor
             THEN Reject(p, l, "AppError", Resp(403, "Unauthorized to make payment for this rental request"))
           ELSE \E amount \in SubmittedAmounts :
             Admit(p, [l EXCEPT !.amount = amount], "cp_find")
  /\ UNCHANGED <<db, notifierUp, returns, calls>>

\* inside $transaction: tx.payment.findUnique, the amount check
PaymentFind(p) ==
  /\ At(p, "cp_find")
  /\ LET l == loc[p] IN
     IF existingPayment(l.id) # {}
       THEN Done(p, "AppError", DuplicatePayment)
     ELSE IF paymentAmount(l) <= 0
       THEN Done(p, "AppError", Resp(400, "Invalid payment amount calculated server-side"))
     ELSE Goto(p, AfterFind(l.status))
  /\ UNCHANGED <<db, clock, notifierUp, returns, calls>>

\* a createPayment that has inserted its row before it calls the provider and
\* keeps it when the call fails
PaymentIntentKeepsRow(p) ==
  /\ At(p, "cp_intent")
  /\ \/ /\ paymentIntents' = paymentIntents + 1
        /\ pc' = [pc EXCEPT ![p] = "cp_create"]
        /\ loc' = [loc EXCEPT ![p].txn = paymentIntents + 1]
        /\ UNCHANGED payments
     \/ /\ Done(p, "StripeError", Resp(500, "Failed to process payment"))
        /\ payments' = Append(payments,
             [rental_request_id |-> loc[p].id, payment_method |-> loc[p].status,
              amount |-> paymentAmount(loc[p]), payment_status |-> "pending",
              transaction_id |-> 0, payment_date |-> 0])
        /\ UNCHANGED paymentIntents
  /\ UNCHANGED <<products, rentalRequests, invoices, notifications, clock, notifierUp, returns, calls>>

\* stripe.paymentIntents.create: the intent, or a provider error
PaymentIntent(p) ==
  /\ At(p, "cp_intent")
  /\ \/ /\ paymentIntents' = paymentIntents + 1
        /\ pc' = [pc EXCEPT ![p] = "cp_create"]
        /\ loc' = [loc EXCEPT ![p].txn = paymentIntents + 1]
     \/ /\ Done(p, "StripeError", Resp(500, "Failed to process payment"))
        /\ UNCHANGED paymentIntents
  /\ UNCHANGED <<products, rentalRequests, payments, invoices, notifications, clock, notifierUp, returns, calls>>

\* tx.payment.create and commit; the unique rental_request_id column rejects a
\* second row (P2002), which is not an AppError
PaymentCreate(p) ==
  /\ At(p, "cp_create")
  /\ LET l == loc[p] IN
     IF UniqueViolation(l.id)
       THEN /\ Done(p, "P2002", Resp(500, "Failed to process payment"))
            /\ UNCHANGED payments
       ELSE \/ /\ payments' = Append(payments,
                    [rental_request_id |-> l.id, payment_method |-> l.status,
                     amount |-> paymentAmount(l), payment_status |-> "pending",
                     transaction_id |-> l.txn, payment_date |-> 0])
               /\ Done(p, "", Resp(201, IF l.status = "offline"
                                          THEN "Offline payment initiated successfully"
                                          ELSE "Payment intent created successfully"))
            \/ /\ Done(p, "PrismaError", Resp(500, "Failed to process payment"))
               /\ UNCHANGED payments
  /\ UNCHANGED <<products, rentalRequests, invoices, notifications, paymentIntents, clock, notifierUp, returns, calls>>

(* ------------------- PUT /api/payments (confirmPayment) ---------------- *)
\* token checks, status check, payment.findUnique, offline owner check
ConfirmBegin(p, n) ==
  /\ CanBegin(p)
  /\ clock < n
  /\ \E actor \in Actors :
       LET la == [NoLoc EXCEPT !.op = "confirm", !.actor = actor] IN
       IF actor = NoUser
         THEN Reject(p, la, "AppError", AuthRequired)
       ELSE \E payment_status \in SubmittedPaymentStatuses :
         LET ls == [la EXCEPT !.status = payment_status] IN
         IF payment_status \notin PaymentStatuses
           THEN Reject(p, ls, "AppError", Resp(400, "Invalid payment status"))
         ELSE \E id \in 1..MaxRequests :
           LET l == [ls EXCEPT !.id = id] IN
           IF id \notin PaymentIds
             THEN Reject(p, l, "AppError", Resp(404, "Payment not found"))
           ELSE IF isOfflineByOther(id, actor)
             THEN Reject(p, l, "AppError", Resp(403, "Unauthorized to update this payment"))
           ELSE Admit(p, [l EXCEPT !.snap = payments[id].payment_status], "cf_payment")
  /\ UNCHANGED <<db, notifierUp, returns, calls>>

\* the catch block of PUT /api/payments for an error that is not an AppError
ConfirmFailed(p) == Done(p, "PrismaError", Resp(500, "Failed to update payment"))
ConfirmOK(p) == Done(p, "", Resp(200, "Payment status updated successfully"))

\* a payment.update that stamps the date whatever the status
payment_dateAlways(payment_status, now) == now

\* payment_date: payment_status === 'completed' ? new Date() : null
payment_date(payment_status, now) == IF payment_status = "completed" THEN now ELSE 0

\* a handler that updates the rental for every status of an offline payment
offlineAnyStatus(payment_status, payment_method) == payment_method = "offline"

\* if (payment_status === 'completed' && payment.payment_method === 'offline')
offlineCompleted(payment_status, payment_method) ==
  payment_status = "completed" /\ payment_method = "offline"

\* payment.update({ data: { payment_status, payment_date } })
ConfirmPayment(p) ==
  /\ At(p, "cf_payment")
  /\ LET l == loc[p] IN
     \/ /\ payments' = [payments EXCEPT
             ![l.id].payment_status = l.status,
             ![l.id].payment_date = payment_date(l.status, clock)]
        /\ IF offlineCompleted(l.status, payments[l.id].payment_method)
             THEN Goto(p, "cf_request")
             ELSE ConfirmOK(p)
     \/ ConfirmFailed(p) /\ UNCHANGED payments
  /\ UNCHANGED <<products, rentalRequests, invoices, notifications, paymentIntents, clock, notifierUp, returns, calls>>

\* rentalRequest.update({ data: { status: 'active' } })
ConfirmRequest(p) ==
  /\ At(p, "cf_request")
  /\ \/ /\ rentalRequests' = [rentalRequests EXCEPT
             ![payments[loc[p].id].rental_request_id].status = "active"]
        /\ Goto(p, "cf_product")
     \/ ConfirmFailed(p) /\ UNCHANGED rentalRequests
  /\ UNCHANGED <<products, payments, invoices, notifications, paymentIntents, clock, notifierUp, returns, calls>>

\* product.update({ data: { status: 'rented' } })
ConfirmProduct(p) ==
  /\ At(p, "cf_product")
  /\ \/ /\ products' = [products EXCEPT
             ![rentalRequests[payments[loc[p].id].rental_request_id].product_id].status = "rented"]
        /\ Goto(p, "cf_invoice")
     \/ ConfirmFailed(p) /\ UNCHANGED products
  /\ UNCHANGED <<rentalRequests, payments, invoices, notifications, paymentIntents, clock, notifierUp, returns, calls>>

\* invoice.findFirst, invoice.update when there is one, the two notifications, 200
ConfirmInvoice(p) ==
  /\ At(p, "cf_invoice")
  /\ LET rr == payments[loc[p].id].rental_request_id IN
     \/ /\ invoices' = IF invoices[rr].invoice_status = "none" THEN invoices
                       ELSE [invoices EXCEPT ![rr] = [invoice_status |-> "paid", paid_date |-> clock]]
        /\ notifications' = Notify(Notify(notifications, "payment_completed"), "payment_confirmed")
        /\ Done(p, "", Dispatched(Resp(200, "Payment status updated successfully")))
     \/ /\ invoices[rr].invoice_status # "none"
        /\ ConfirmFailed(p)
        /\ UNCHANGED <<invoices, notifications>>
  /\ UNCHANGED <<products, rentalRequests, payments, paymentIntents, clock, notifierUp, returns, calls>>

(* ------------- GET /api/rental-requests/availability ------------------- *)
\* date.toISOString().split('T')[0]: the day a time in hours falls on
isoDay(hours) == hours \div HoursPerDay

\* the entry of unavailableRanges for rental request row r
unavailableRange(r) ==
  [startDate |-> isoDay(r.start_date), endDate |-> isoDay(r.end_date), status |-> r.status]

\* unavailableRequests mapped to unavailableRanges
unavailableRanges(product_id) ==
  {unavailableRange(rentalRequests[i]) :
     i \in {j \in RequestIds : /\ rentalRequests[j].product_id = product_id
                               /\ rentalRequests[j].status \in UnavailableStatuses}}

\* the whole handler: it reads no token; without a productId it answers 400,
\* otherwise it runs its queries and answers 200 with the unavailable ranges
\* (requestLimitInfo is computed by RequestLimitInfo below)
AvailabilityGet(p, n) ==
  /\ CanBegin(p)
  /\ clock < n
  /\ \A q \in Procs \ {p} : pc[q] = "idle"
  /\ \E actor \in Actors, product_id \in Products \cup {NoProduct, ""} :
       LET l == [NoLoc EXCEPT !.op = "availability", !.actor = actor,
                              !.product_id = product_id] IN
       /\ clock' = clock + 1
       /\ pc' = [pc EXCEPT ![p] = "done"]
       /\ loc' = [loc EXCEPT ![p] =
            [l EXCEPT !.ranges = IF product_id = "" THEN {}
                                   ELSE unavailableRanges(product_id),
                      !.resp = IF product_id = ""
                                 THEN Resp(400, "Product ID is required")
                                 ELSE Resp(200, "Unavailable dates retrieved successfully")]]
  /\ UNCHANGED <<db, notifierUp, returns, calls>>

(* ------------------ GET /api/rental-requests/active ------------------- *)
\* status: { in: ['accepted', 'paid'] }
ActiveRentalStatuses == {"accepted", "paid"}

\* rentalRequest.findMany({ where: { customer_id, status: { in: [...] },
\*                                   productReturn: null } })
activeRentals(actor) ==
  {i \in RequestIds : /\ rentalRequests[i].customer_id = actor
                      /\ rentalRequests[i].status \in ActiveRentalStatuses
                      /\ \A r \in 1..Len(productReturns) :
                           productReturns[r].rental_request_id # i}

\* the whole handler: 401 without a valid token, otherwise the query and 200
ActiveRentalsGet(p, n) ==
  /\ CanBegin(p)
  /\ clock < n
  /\ \A q \in Procs \ {p} : pc[q] = "idle"
  /\ \E actor \in Actors :
       LET l == [NoLoc EXCEPT !.op = "active", !.actor = actor] IN
       /\ clock' = clock + 1
       /\ pc' = [pc EXCEPT ![p] = "done"]
       /\ loc' = [loc EXCEPT ![p] =
            IF actor = NoUser
              THEN [l EXCEPT !.error = "AppError", !.resp = AuthRequired]
              ELSE [l EXCEPT !.activeRentals = activeRentals(actor),
                             !.resp = Resp(200, "Active rentals retrieved successfully")]]
  /\ UNCHANGED <<db, notifierUp, returns, calls>>

(* ------------ POST /api/returns/[id]/damage-assessment ----------------- *)
\* token checks, productReturn.findUnique, owner check, body parse
DamageBegin(p, n) ==
  /\ CanBegin(p)
  /\ clock < n
  /\ \E actor \in Actors :
       LET la == [NoLoc EXCEPT !.op = "damage", !.actor = actor] IN
       IF actor = NoUser
         THEN Reject(p, la, "", AuthRequired)
       ELSE \E id \in 1..MaxRequests :
         LET li == [la EXCEPT !.id = id] IN
         IF id \notin ReturnIds
           THEN Reject(p, li, "", Resp(404, "Return not found"))
         ELSE IF returnOwner(id) # actor
           THEN Reject(p, li, "", Resp(403, "Unauthorized to create damage assessment for this return"))
         ELSE \E body \in DamageBodies :
           LET l == [li EXCEPT !.status = body] IN
           IF body # "valid"
             THEN Reject(p, l, "ZodError", Resp(400, "Validation error"))
           ELSE Admit(p, l, "da_find")
  /\ UNCHANGED <<db, notifierUp, returns, calls>>

\* damageAssessment.findUnique and the already-exists answer
DamageFind(p) ==
  /\ At(p, "da_find")
  /\ IF existingAssessment(loc[p].id) # {}
       THEN Done(p, "", AssessmentExists)
     ELSE Goto(p, "da_create")
  /\ UNCHANGED <<db, clock, notifierUp, returns, calls>>

\* damageAssessment.create on a product_return_id that already has a row: the
\* unique index findUnique relies on rejects the insert (Prisma error P2002)
AssessmentUniqueViolation(product_return_id) ==
  existingAssessment(product_return_id) # {}

\* damageAssessment.create, 201; any error it throws is answered by the catch block
DamageCreate(p) ==
  /\ At(p, "da_create")
  /\ LET l == loc[p] IN
     IF AssessmentUniqueViolation(l.id)
       THEN /\ Done(p, "P2002", Resp(500, "Failed to create damage assessment"))
            /\ UNCHANGED damageAssessments
       ELSE \/ /\ damageAssessments' = Append(damageAssessments, [product_return_id |-> l.id])
               /\ Done(p, "", Resp(201, "Damage assessment created successfully"))
            \/ /\ Done(p, "PrismaError", Resp(500, "Failed to create damage assessment"))
               /\ UNCHANGED damageAssessments
  /\ UNCHANGED <<db, clock, notifierUp, productReturns, calls>>

\* the return process of a rental request starts: its ProductReturn row is created
InitiateReturn ==
  /\ Quiet
  /\ \E rr \in RequestIds :
       /\ \A i \in ReturnIds : productReturns[i].rental_request_id # rr
       /\ productReturns' = Append(productReturns,
            [rental_request_id |-> rr, return_status |-> "initiated"])
  /\ UNCHANGED <<db, damageAssessments, notifierUp, clock, pc, loc, calls>>

(* ---------- returns/[id]/page.tsx: handleReturnConfirmation ------------ *)
\* the ProductReturn rows of rental request rr
returnOf(rr) == {i \in ReturnIds : productReturns[i].rental_request_id = rr}

\* the answer of PUT /api/returns/[rentalId] { return_status: 'completed' }
ReturnsPutResponse(id, actor) ==
  IF id \notin RequestIds \/ returnOf(id) = {}
    THEN Resp(404, "Return not found")
  ELSE IF ~isOwner(id, actor) /\ ~isCustomer(id, actor)
    THEN Resp(403, "Forbidden")
  ELSE IF \E i \in returnOf(id) : productReturns[i].return_status = "completed"
    THEN Resp(400, "InvalidState")
  ELSE Resp(200, "Return updated successfully")

\* a page that goes on whatever the answer of PUT /api/returns was
responseOkIgnored(r) == TRUE

\* response.ok
responseOk(r) == r.status \in 200..299

\* the token check, then fetch PUT /api/returns/[rentalId] and the check of
\* its answer; the ProductReturn is completed when the answer is ok
ReturnPut(p, n) ==
  /\ CanBegin(p)
  /\ clock < n
  /\ \E actor \in Actors, id \in 1..MaxRequests :
       LET l == [NoLoc EXCEPT !.op = "return", !.actor = actor, !.id = id,
                              !.status = "completed"] IN
       IF actor = NoUser
         THEN /\ Reject(p, l, "Please log in to confirm return", NoResp)
              /\ UNCHANGED productReturns
       ELSE LET r == ReturnsPutResponse(id, actor) IN
         /\ productReturns' =
              IF r.status = 200
                THEN [i \in ReturnIds |->
                       IF i \in returnOf(id)
                         THEN [productReturns[i] EXCEPT !.return_status = "completed"]
                         ELSE productReturns[i]]
                ELSE productReturns
         /\ IF responseOk(r)
              THEN Admit(p, [l EXCEPT !.resp = r], "rt_rental")
              ELSE Reject(p, l, "Failed to confirm return", r)
  /\ UNCHANGED <<db, damageAssessments, notifierUp, calls>>

\* fetch PUT /api/rental-requests/[rentalId] { status: 'completed' }: the
\* first stretch of the status update handler; the page does not look at the
\* answer
ReturnRental(p) ==
  /\ At(p, "rt_rental")
  /\ LET l == loc[p] IN
     IF l.id \notin RequestIds
       THEN Done(p, "", Resp(404, "Rental request not found"))
     ELSE IF ~isOwner(l.id, l.actor) /\ ~isCustomer(l.id, l.actor)
       THEN Done(p, "", Resp(403, "Unauthorized to update this rental request"))
     ELSE /\ pc' = [pc EXCEPT ![p] = "us_update"]
          /\ loc' = [loc EXCEPT ![p].product_id = rentalRequests[l.id].product_id]
  /\ UNCHANGED <<db, clock, notifierUp, returns, calls>>

(* ------------------------- the rest of the machine --------------------- *)
\* the response is sent; the slot is free again
Finish(p) ==
  /\ pc[p] = "done"
  /\ pc' = [pc EXCEPT ![p] = "idle"]
  /\ loc' = [loc EXCEPT ![p] = NoLoc]
  /\ UNCHANGED <<db, clock, notifierUp, returns, calls>>

\* an unpaid invoice is issued for a rental request that has a payment and no invoice
IssueInvoice ==
  /\ Quiet
  /\ \E rr \in RequestIds :
       /\ invoices[rr].invoice_status = "none"
       /\ existingPayment(rr) # {}
       /\ invoices' = [invoices EXCEPT ![rr] = [invoice_status |-> "unpaid", paid_date |-> 0]]
  /\ UNCHANGED <<products, rentalRequests, payments, notifications, paymentIntents,
                 notifierUp, returns, calls, clock, pc, loc>>

\* a step of the handler in slot p
Handler(p, n) ==
  \/ CreateBegin(p, n) \/ CreateOverlap(p) \/ CreateInsert(p)
  \/ UpdateBegin(p, n) \/ UpdateStatus(p) \/ UpdateProduct(p)
  \/ PaymentBegin(p, n) \/ PaymentFind(p) \/ PaymentIntent(p) \/ PaymentCreate(p)
  \/ ConfirmBegin(p, n) \/ ConfirmPayment(p) \/ ConfirmRequest(p)
  \/ ConfirmProduct(p) \/ ConfirmInvoice(p)
  \/ Finish(p)

\* handlers interleave at their awaits
Next ==
  \/ \E p \in Procs : Handler(p, MaxRaceOps)
  \/ IssueInvoice

Spec == Init /\ [][Next]_vars

\* one handler runs at a time, from its request to its response
NextSeq ==
  \/ Handler(1, MaxOps)
  \/ IssueInvoice

SpecSeq == Init /\ [][NextSeq]_vars

\* one handler at a time, one more request
NextDeep ==
  \/ Handler(1, MaxDeepOps)
  \/ IssueInvoice

SpecDeep == Init /\ [][NextDeep]_vars

\* a step of a handler of the return workflow or of one it depends on
ReturnsHandler(p, n) ==
  \/ CreateBegin(p, n) \/ CreateOverlap(p) \/ CreateInsert(p)
  \/ PaymentBegin(p, n) \/ PaymentFind(p) \/ PaymentIntent(p) \/ PaymentCreate(p)
  \/ AvailabilityGet(p, n)
  \/ DamageBegin(p, n) \/ DamageFind(p) \/ DamageCreate(p)
  \/ Finish(p)

\* rental requests are created, paid for and returned; handlers interleave
NextReturns ==
  \/ \E p \in Procs : ReturnsHandler(p, MaxReturnOps)
  \/ InitiateReturn

SpecReturns == Init /\ [][NextReturns]_vars

\* the handlers, one at a time, over a product that is free of charge or has
\* the list price
InitRates ==
  /\ \E rate \in {0, ListPrice} :
       products = [q \in Products |-> [status |-> "available", rental_price |-> rate]]
  /\ rentalRequests = <<>>
  /\ payments = <<>>
  /\ invoices = [i \in 1..MaxRequests |-> NoInvoice]
  /\ notifications = [t \in NotificationTypes |-> 0]
  /\ paymentIntents = 0
  /\ productReturns = <<>>
  /\ damageAssessments = <<>>
  /\ quote = NoQuote
  /\ notifyCall = NoCall
  /\ limitCall = NoLimitCall
  /\ overlapCall = NoOverlapCall
  /\ WebUnloaded
  /\ notifierUp \in BOOLEAN
  /\ clock = 0
  /\ pc = [p \in Procs |-> "idle"]
  /\ loc = [p \in Procs |-> NoLoc]

SpecRates == InitRates /\ [][NextSeq]_vars

(* ------------- the rentalPeriod / price switch of create --------------- *)
\* the switch on validatedData.rental_period, applied to the inputs in quote
ComputeQuote ==
  /\ quote.rentalPeriod = 0
  /\ quote' = [quote EXCEPT
       !.rentalPeriod = rentalPeriod(quote.start_date, quote.end_date, quote.rental_period),
       !.price = price(quote.rate, quote.start_date, quote.end_date, quote.rental_period)]
  /\ UNCHANGED <<db, returns, notifyCall, limitCall, overlapCall, web, notifierUp, clock, pc, loc>>

\* a product rate, a range with start before end and a rental_period
InitPrice ==
  /\ products = [q \in Products |-> [status |-> "available", rental_price |-> ListPrice]]
  /\ rentalRequests = <<>>
  /\ payments = <<>>
  /\ invoices = [i \in 1..MaxRequests |-> NoInvoice]
  /\ notifications = [t \in NotificationTypes |-> 0]
  /\ paymentIntents = 0
  /\ productReturns = <<>>
  /\ damageAssessments = <<>>
  /\ \E rate \in Rates, start_date \in {0, HoursPerDay}, hours \in QuoteHours,
        rental_period \in AllRentalPeriods :
       quote = [rate |-> rate, start_date |-> start_date, end_date |-> start_date + hours,
                rental_period |-> rental_period, rentalPeriod |-> 0, price |-> 0]
  /\ notifyCall = NoCall
  /\ limitCall = NoLimitCall
  /\ overlapCall = NoOverlapCall
  /\ WebUnloaded
  /\ notifierUp = TRUE
  /\ clock = 0
  /\ pc = [p \in Procs |-> "idle"]
  /\ loc = [p \in Procs |-> NoLoc]

SpecPrice == InitPrice /\ [][ComputeQuote]_vars

(* ------------- requestLimitInfo of the availability query -------------- *)
\* Date.now() of the query, in hours
QueryTime == 2 * HoursPerDay
\* the rows of the rentalRequest table as the two count queries see them
LimitRows ==
  [product_id : Products \cup {"p2"}, status : {"pending", "accepted", "paid"},
   created_at : {0, HoursPerDay, 2 * HoursPerDay - 1}]

\* rentalRequest.count({ where: { product_id, status: 'pending' } })
pendingRequestsCount(rows, product_id) ==
  Cardinality({i \in DOMAIN rows : /\ rows[i].product_id = product_id
                                    /\ rows[i].status = "pending"})

\* rentalRequest.count({ where: { product_id, status: 'accepted',
\*                                created_at: { gte: twentyFourHoursAgo } } })
recentAcceptedRequests(rows, product_id, now) ==
  LET twentyFourHoursAgo == now - HoursPerDay IN
  Cardinality({i \in DOMAIN rows : /\ rows[i].product_id = product_id
                                    /\ rows[i].status = "accepted"
                                    /\ rows[i].created_at >= twentyFourHoursAgo})

\* an availability query that reports the limit from the third pending request on
isAtLimitAbove(pending, recentAccepted) == pending > 2 /\ recentAccepted = 0

\* isAtLimit: pendingRequestsCount >= 2 && recentAcceptedRequests === 0
isAtLimit(pending, recentAccepted) == pending >= 2 /\ recentAccepted = 0

\* the two count queries and requestLimitInfo, for the product of Products
RequestLimitInfo ==
  /\ ~limitCall.computed
  /\ \E product_id \in Products :
       LET pending == pendingRequestsCount(limitCall.rows, product_id)
           recent == recentAcceptedRequests(limitCall.rows, product_id, QueryTime) IN
       limitCall' = [limitCall EXCEPT !.pendingRequestsCount = pending,
                                      !.recentAcceptedRequests = recent,
                                      !.isAtLimit = isAtLimit(pending, recent),
                                      !.computed = TRUE]
  /\ UNCHANGED <<db, returns, quote, notifyCall, overlapCall, web, notifierUp, clock, pc, loc>>

\* a rentalRequest table of up to MaxLimitRows rows
InitLimit ==
  /\ products = [q \in Products |-> [status |-> "available", rental_price |-> ListPrice]]
  /\ rentalRequests = <<>>
  /\ payments = <<>>
  /\ invoices = [i \in 1..MaxRequests |-> NoInvoice]
  /\ notifications = [t \in NotificationTypes |-> 0]
  /\ paymentIntents = 0
  /\ productReturns = <<>>
  /\ damageAssessments = <<>>
  /\ quote = NoQuote
  /\ notifyCall = NoCall
  /\ \E n \in 0..MaxLimitRows : \E rows \in [1..n -> LimitRows] :
       limitCall = [NoLimitCall EXCEPT !.rows = rows]
  /\ overlapCall = NoOverlapCall
  /\ WebUnloaded
  /\ notifierUp = TRUE
  /\ clock = 0
  /\ pc = [p \in Procs |-> "idle"]
  /\ loc = [p \in Procs |-> NoLoc]

SpecLimit == InitLimit /\ [][RequestLimitInfo]_vars

(* ------------- the overlap filter of create, on its own --------------- *)
\* the <<start, end>> pairs, in days, with start before end
OverlapRanges ==
  {se \in (0..MaxOverlapDay) \X (0..MaxOverlapDay) : se[1] < se[2]}

\* the OR clause of the overlappingRequests query applied to one stored row
SelectOverlapping ==
  /\ ~overlapCall.computed
  /\ overlapCall' =
       [overlapCall EXCEPT
          !.selected = OverlapClause(overlapCall, overlapCall.requestStartDate,
                                     overlapCall.requestEndDate),
          !.computed = TRUE]
  /\ UNCHANGED <<db, returns, quote, notifyCall, limitCall, web, notifierUp, clock, pc, loc>>

\* a stored row and a requested range, each with start before end
InitOverlap ==
  /\ products = [q \in Products |-> [status |-> "available", rental_price |-> ListPrice]]
  /\ rentalRequests = <<>>
  /\ payments = <<>>
  /\ invoices = [i \in 1..MaxRequests |-> NoInvoice]
  /\ notifications = [t \in NotificationTypes |-> 0]
  /\ paymentIntents = 0
  /\ productReturns = <<>>
  /\ damageAssessments = <<>>
  /\ quote = NoQuote
  /\ notifyCall = NoCall
  /\ limitCall = NoLimitCall
  /\ \E stored \in OverlapRanges : \E requested \in OverlapRanges :
       overlapCall = [NoOverlapCall EXCEPT !.start_date = HoursPerDay * stored[1],
                                           !.end_date = HoursPerDay * stored[2],
                                           !.requestStartDate = HoursPerDay * requested[1],
                                           !.requestEndDate = HoursPerDay * requested[2]]
  /\ WebUnloaded
  /\ notifierUp = TRUE
  /\ clock = 0
  /\ pc = [p \in Procs |-> "idle"]
  /\ loc = [p \in Procs |-> NoLoc]

SpecOverlap == InitOverlap /\ [][SelectOverlapping]_vars

(* -------------- AuthContext.tsx and SocketManager (browser) ------------ *)
\* everything outside the browser stays as it is
server == <<db, returns, quote, notifyCall, limitCall, overlapCall, notifierUp, clock, pc, loc>>

Take(list, k) == SubSeq(list, 1, IF Len(list) < k THEN Len(list) ELSE k)

\* the ids of S, the latest first
RECURSIVE newestFirst(_)
newestFirst(S) ==
  IF S = {} THEN <<>>
  ELSE LET latest == CHOOSE x \in S : \A y \in S : y <= x IN
       <<latest>> \o newestFirst(S \ {latest})

\* the answer to fetch('/api/notifications?limit=20'): data.data, data.unreadCount
notificationsPage == Take(newestFirst(serverNotifications), PageLimit)

\* the updater passed to setNotifications after a successful fetch
mergePolled(currentNotifications, newNotifications) ==
  IF Len(currentNotifications) = 0 THEN newNotifications
  ELSE LET currentIds == {currentNotifications[i] : i \in DOMAIN currentNotifications}
           newOnes == SelectSeq(newNotifications, LAMBDA n : n \notin currentIds) IN
       IF Len(newOnes) > 0
         THEN Take(newOnes \o currentNotifications, PageLimit)
         ELSE currentNotifications

\* socketRef.current, the socket of the session, which SocketManager's render
\* assigns to window.socket; without SocketManager, the socket the page holds
\* in window.socket
RenderedSocket == IF socketManager THEN socketRef ELSE windowSocket

\* a call of fetchNotificationsWithCache that has gone on to its fetch
NewPoll == [now |-> clientTime, stage |-> "fetching", data |-> <<>>, unreadCount |-> 0]
Without(list, i) == SubSeq(list, 1, i - 1) \o SubSeq(list, i + 1, Len(list))

\* setUser(user) and what follows it: the two count fetches, the polling
\* effect (first fetch forced, then the interval), SocketManager's effect
StartSession ==
  /\ user' = ClientUser
  /\ logins' = logins + 1
  /\ unreadFetch' = TRUE
  /\ pendingFetch' = TRUE
  /\ polls' = Append(polls, NewPoll)
  /\ nextPoll' = clientTime + CACHE_DURATION
  /\ windowSocket' = RenderedSocket
  /\ IF socketManager /\ socketRef = NoSocket
       THEN socketRef' = logins + 1 /\ socketConnected' = FALSE
       ELSE UNCHANGED <<socketRef, socketConnected>>

\* AuthProvider mounts: the effect that reads localStorage, and the socket
\* effect, which registers handleNotification if window.socket is set
Mount ==
  /\ ~mounted
  /\ mounted' = TRUE
  /\ handlerSocket' = RenderedSocket
  /\ IF token
       THEN StartSession
       ELSE /\ windowSocket' = RenderedSocket
            /\ UNCHANGED <<user, logins, unreadFetch, pendingFetch, polls, nextPoll,
                           socketRef, socketConnected>>
  /\ UNCHANGED <<socketManager, token, clientNotifications, unreadNotificationsCount,
                 ownerPendingCount, notificationCacheRef, serverNotifications, pushes,
                 received, clientTime, server>>

\* login(token, user)
Login ==
  /\ mounted /\ user = NoSession
  /\ logins < MaxLogins /\ Len(polls) < MaxPolls
  /\ token' = TRUE
  /\ StartSession
  /\ UNCHANGED <<mounted, socketManager, clientNotifications, unreadNotificationsCount,
                 ownerPendingCount, notificationCacheRef, handlerSocket,
                 serverNotifications, pushes, received, clientTime, server>>

\* logout(), the cleanup of the polling effect and of SocketManager's effect
Logout ==
  /\ mounted /\ user # NoSession
  /\ token' = FALSE
  /\ user' = NoSession
  /\ ownerPendingCount' = 0
  /\ unreadNotificationsCount' = 0
  /\ clientNotifications' = <<>>
  /\ received' = {}
  /\ nextPoll' = 0 - 1
  /\ windowSocket' = RenderedSocket
  /\ IF socketManager
       THEN socketRef' = NoSocket /\ socketConnected' = FALSE /\ pushes' = {}
       ELSE UNCHANGED <<socketRef, socketConnected, pushes>>
  /\ UNCHANGED <<mounted, socketManager, logins, notificationCacheRef, handlerSocket, polls,
                 unreadFetch, pendingFetch, serverNotifications, clientTime, server>>

\* the socket SocketManager created connects
Connect ==
  /\ socketManager /\ socketRef # NoSocket /\ ~socketConnected
  /\ socketConnected' = TRUE
  /\ UNCHANGED <<mounted, socketManager, token, user, logins, clientNotifications,
                 unreadNotificationsCount, ownerPendingCount, notificationCacheRef,
                 windowSocket, socketRef, handlerSocket, polls, nextPoll, unreadFetch,
                 pendingFetch, serverNotifications, pushes, received, clientTime, server>>

\* the server creates a notification for the user and emits it on the
\* session's socket if that is connected
CreateNotification ==
  /\ Cardinality(serverNotifications) < MaxPushed
  /\ LET n == Cardinality(serverNotifications) + 1 IN
     /\ serverNotifications' = serverNotifications \cup {n}
     /\ pushes' = IF RenderedSocket # NoSocket /\ socketConnected
                    THEN pushes \cup {n} ELSE pushes
  /\ UNCHANGED <<mounted, socketManager, token, user, logins, clientNotifications,
                 unreadNotificationsCount, ownerPendingCount, notificationCacheRef,
                 windowSocket, socketRef, socketConnected, handlerSocket, polls, nextPoll,
                 unreadFetch, pendingFetch, received, clientTime, server>>

\* a 'notification' event reaches the listeners of the session's socket:
\* handleNotification if it is registered on that socket
DeliverPush ==
  /\ mounted
  /\ \E n \in pushes :
       /\ pushes' = pushes \ {n}
       /\ IF handlerSocket # NoSocket /\ handlerSocket = RenderedSocket
            THEN /\ clientNotifications' = <<n>> \o clientNotifications
                 /\ unreadNotificationsCount' = unreadNotificationsCount + 1
                 /\ notificationCacheRef' = NoCache
                 /\ received' = received \cup {n}
                 /\ windowSocket' = RenderedSocket
            ELSE UNCHANGED <<clientNotifications, unreadNotificationsCount,
                             notificationCacheRef, received, windowSocket>>
  /\ UNCHANGED <<mounted, socketManager, token, user, logins, ownerPendingCount, socketRef,
                 socketConnected, handlerSocket, polls, nextPoll, unreadFetch, pendingFetch,
                 serverNotifications, clientTime, server>>

\* the setInterval callback: fetchNotificationsWithCache(false) up to its
\* fetch. The callback may run late; the next one is due at the first
\* multiple of the interval, counted from the start of the timer, that lies
\* ahead.
IntervalPoll ==
  /\ mounted /\ user # NoSession
  /\ nextPoll >= 0 /\ clientTime >= nextPoll
  /\ Len(polls) < MaxPolls
  /\ nextPoll' = nextPoll + CACHE_DURATION * ((clientTime - nextPoll) \div CACHE_DURATION + 1)
  /\ IF ~token
       THEN UNCHANGED <<clientNotifications, unreadNotificationsCount, polls, windowSocket>>
     ELSE IF /\ notificationCacheRef.filled
             /\ clientTime - notificationCacheRef.timestamp < CACHE_DURATION
       THEN /\ clientNotifications' = notificationCacheRef.data
            /\ unreadNotificationsCount' = notificationCacheRef.unreadCount
            /\ windowSocket' = RenderedSocket
            /\ UNCHANGED polls
       ELSE /\ polls' = Append(polls, NewPoll)
            /\ UNCHANGED <<clientNotifications, unreadNotificationsCount, windowSocket>>
  /\ UNCHANGED <<mounted, socketManager, token, user, logins, ownerPendingCount,
                 notificationCacheRef, socketRef, socketConnected, handlerSocket,
                 unreadFetch, pendingFetch, serverNotifications, pushes, received,
                 clientTime, server>>

\* the server answers the fetch of a poll with the notifications it holds
PollAnswer ==
  /\ \E i \in DOMAIN polls :
       /\ polls[i].stage = "fetching"
       /\ polls' = [polls EXCEPT ![i] = [@ EXCEPT !.stage = "answered",
                                                   !.data = notificationsPage,
                                                   !.unreadCount =
                                                     Cardinality(serverNotifications)]]
  /\ UNCHANGED <<mounted, socketManager, token, user, logins, clientNotifications,
                 unreadNotificationsCount, ownerPendingCount, notificationCacheRef,
                 windowSocket, socketRef, socketConnected, handlerSocket, nextPoll,
                 unreadFetch, pendingFetch, serverNotifications, pushes, received,
                 clientTime, server>>

\* the answer arrives: the merge, the unread count, the cache
PollDeliver ==
  /\ \E i \in DOMAIN polls :
       /\ polls[i].stage = "answered"
       /\ clientNotifications' = mergePolled(clientNotifications, polls[i].data)
       /\ unreadNotificationsCount' = polls[i].unreadCount
       /\ notificationCacheRef' = [data |-> polls[i].data,
                                   unreadCount |-> polls[i].unreadCount,
                                   timestamp |-> polls[i].now, filled |-> TRUE]
       /\ polls' = Without(polls, i)
  /\ windowSocket' = RenderedSocket
  /\ UNCHANGED <<mounted, socketManager, token, user, logins, ownerPendingCount, socketRef,
                 socketConnected, handlerSocket, nextPoll, unreadFetch, pendingFetch,
                 serverNotifications, pushes, received, clientTime, server>>

\* the fetch of a poll throws and the catch block falls back on the cache,
\* or its answer is not ok and nothing is set
PollFail ==
  /\ \E i \in DOMAIN polls :
       /\ polls[i].stage = "fetching"
       /\ polls' = Without(polls, i)
  /\ \/ /\ notificationCacheRef.filled
        /\ clientNotifications' = notificationCacheRef.data
        /\ unreadNotificationsCount' = notificationCacheRef.unreadCount
        /\ windowSocket' = RenderedSocket
     \/ UNCHANGED <<clientNotifications, unreadNotificationsCount, windowSocket>>
  /\ UNCHANGED <<mounted, socketManager, token, user, logins, ownerPendingCount,
                 notificationCacheRef, socketRef, socketConnected, handlerSocket, nextPoll,
                 unreadFetch, pendingFetch, serverNotifications, pushes, received,
                 clientTime, server>>

\* fetchUnreadNotificationsCount ends: the count of the answer, or nothing
\* when the fetch fails
UnreadFetchDone ==
  /\ unreadFetch
  /\ unreadFetch' = FALSE
  /\ \/ /\ unreadNotificationsCount' = Cardinality(serverNotifications)
        /\ windowSocket' = RenderedSocket
     \/ UNCHANGED <<unreadNotificationsCount, windowSocket>>
  /\ UNCHANGED <<mounted, socketManager, token, user, logins, clientNotifications,
                 ownerPendingCount, notificationCacheRef, socketRef, socketConnected,
                 handlerSocket, polls, nextPoll, pendingFetch, serverNotifications, pushes,
                 received, clientTime, server>>

\* fetchPendingRequestsCount ends: the number of pending requests in the
\* answer, or nothing when the fetch fails
PendingFetchDone ==
  /\ pendingFetch
  /\ pendingFetch' = FALSE
  /\ \/ \E trulyPendingRequests \in 0..1 :
          ownerPendingCount' = trulyPendingRequests /\ windowSocket' = RenderedSocket
     \/ UNCHANGED <<ownerPendingCount, windowSocket>>
  /\ UNCHANGED <<mounted, socketManager, token, user, logins, clientNotifications,
                 unreadNotificationsCount, notificationCacheRef, socketRef, socketConnected,
                 handlerSocket, polls, nextPoll, unreadFetch, serverNotifications, pushes,
                 received, clientTime, server>>

\* 15 s pass
Advance ==
  /\ mounted /\ clientTime < MaxClientTime
  /\ clientTime' = clientTime + 1
  /\ UNCHANGED <<mounted, socketManager, token, user, logins, clientNotifications,
                 unreadNotificationsCount, ownerPendingCount, notificationCacheRef,
                 windowSocket, socketRef, socketConnected, handlerSocket, polls, nextPoll,
                 unreadFetch, pendingFetch, serverNotifications, pushes, received, server>>

\* what AuthProvider does whether or not SocketManager is there
NextProvider ==
  \/ Mount \/ Login \/ Logout
  \/ CreateNotification \/ DeliverPush
  \/ IntervalPoll \/ PollAnswer \/ PollDeliver \/ PollFail
  \/ UnreadFetchDone \/ PendingFetchDone
  \/ Advance

NextWrapper == NextProvider \/ Connect

\* the server side at rest
ServerIdle ==
  /\ products = [q \in Products |-> [status |-> "available", rental_price |-> ListPrice]]
  /\ rentalRequests = <<>>
  /\ payments = <<>>
  /\ invoices = [i \in 1..MaxRequests |-> NoInvoice]
  /\ notifications = [t \in NotificationTypes |-> 0]
  /\ paymentIntents = 0
  /\ productReturns = <<>>
  /\ damageAssessments = <<>>
  /\ quote = NoQuote
  /\ notifyCall = NoCall
  /\ limitCall = NoLimitCall
  /\ overlapCall = NoOverlapCall
  /\ notifierUp = TRUE
  /\ clock = 0
  /\ pc = [p \in Procs |-> "idle"]
  /\ loc = [p \in Procs |-> NoLoc]

\* the page before AuthWrapper mounts, with or without a stored session
BrowserStart ==
  /\ mounted = FALSE
  /\ token \in BOOLEAN
  /\ user = NoSession
  /\ logins = 0
  /\ clientNotifications = <<>>
  /\ unreadNotificationsCount = 0
  /\ ownerPendingCount = 0
  /\ notificationCacheRef = NoCache
  /\ socketRef = NoSocket
  /\ handlerSocket = NoSocket
  /\ polls = <<>>
  /\ nextPoll = 0 - 1
  /\ unreadFetch = FALSE
  /\ pendingFetch = FALSE
  /\ serverNotifications = {}
  /\ pushes = {}
  /\ received = {}
  /\ clientTime = 0

\* AuthWrapper: AuthProvider with SocketManager under it; window.socket is
\* not set when the page loads
InitWrapper ==
  /\ ServerIdle
  /\ BrowserStart
  /\ socketManager = TRUE
  /\ windowSocket = NoSocket
  /\ socketConnected = FALSE

SpecWrapper == InitWrapper /\ [][NextWrapper]_vars

\* the socket connects and delivers what is emitted on it
SpecWrapperLive ==
  SpecWrapper /\ WF_vars(Mount) /\ WF_vars(Connect) /\ WF_vars(DeliverPush)

\* AuthProvider on its own, in a page whose window.socket is null or holds a
\* connected socket
InitProvider ==
  /\ ServerIdle
  /\ BrowserStart
  /\ socketManager = FALSE
  /\ windowSocket \in {NoSocket, 1}
  /\ socketConnected = (windowSocket # NoSocket)

SpecProvider == InitProvider /\ [][NextProvider]_vars

(* ------------------------ NotificationService -------------------------- *)
\* whether notify<event> throws to its caller, given that createNotification
\* succeeds (created) and that sendEmail succeeds (emailOk): the catch blocks
\* of notifyInvoiceEmailed re-throw, the others log and return
Propagates(event, created, emailOk) ==
  event = "invoice_emailed" /\ (~created \/ ~emailOk)

\* one call of a notify<Event> operation: createNotification, then sendEmail
NotifyEvent ==
  /\ clock < MaxNotifyCalls
  /\ \E event \in NotifyEvents, emailOk \in BOOLEAN :
       /\ notifications' = IF notifierUp THEN [notifications EXCEPT ![event] = @ + 1]
                           ELSE notifications
       /\ notifyCall' = [event |-> event, created |-> notifierUp,
                         emailed |-> notifierUp /\ emailOk,
                         thrown |-> Propagates(event, notifierUp, emailOk)]
  /\ clock' = clock + 1
  /\ UNCHANGED <<products, rentalRequests, payments, invoices, paymentIntents,
                 returns, quote, limitCall, overlapCall, web, notifierUp, pc, loc>>

InitNotify ==
  /\ products = [q \in Products |-> [status |-> "available", rental_price |-> ListPrice]]
  /\ rentalRequests = <<>>
  /\ payments = <<>>
  /\ invoices = [i \in 1..MaxRequests |-> NoInvoice]
  /\ notifications = [t \in NotifyEvents |-> 0]
  /\ paymentIntents = 0
  /\ productReturns = <<>>
  /\ damageAssessments = <<>>
  /\ quote = NoQuote
  /\ notifyCall = NoCall
  /\ limitCall = NoLimitCall
  /\ overlapCall = NoOverlapCall
  /\ WebUnloaded
  /\ notifierUp \in BOOLEAN
  /\ clock = 0
  /\ pc = [p \in Procs |-> "idle"]
  /\ loc = [p \in Procs |-> NoLoc]

\* the operations of NotificationService called one after the other
SpecNotify == InitNotify /\ [][NotifyEvent]_vars

\* the handlers and the availability query, one invocation at a time
NextAvail ==
  \/ Handler(1, MaxOps)
  \/ IssueInvoice
  \/ AvailabilityGet(1, MaxOps)

SpecAvail == Init /\ [][NextAvail]_vars

\* the handlers, the start of a return and the active-rentals query, one
\* invocation at a time
NextActive ==
  \/ Handler(1, MaxOps)
  \/ IssueInvoice
  \/ InitiateReturn
  \/ ActiveRentalsGet(1, MaxOps)

SpecActive == Init /\ [][NextActive]_vars

\* the handlers and the return page, one invocation at a time
NextFlow ==
  \/ Handler(1, MaxFlowOps)
  \/ IssueInvoice
  \/ InitiateReturn
  \/ ReturnPut(1, MaxFlowOps)
  \/ ReturnRental(1)

SpecFlow == Init /\ [][NextFlow]_vars

(* ======================= properties of the handlers ==================== *)
\* slot p holds the response of a handler of kind op that is about to be sent
Responded(p, op) == pc[p] = "done" /\ loc[p].op = op

\* the rental requests of product_id whose status blocks a booking
Holders(product_id) ==
  {i \in RequestIds : /\ rentalRequests[i].product_id = product_id
                      /\ rentalRequests[i].status \in BlockingStatuses}

\* the create handler of slot p takes the step that runs the overlap query and
\* the guards after it
CreateDecides(p) == pc[p] = "cr_overlap" /\ pc'[p] # "cr_overlap"

\* the steps of the PUT /api/payments handler that write
ConfirmSteps == {"cf_payment", "cf_request", "cf_product", "cf_invoice"}

\* product_id is rented to an active request other than id whose payment is
\* completed
RentedByOther(id, product_id) ==
  /\ products[product_id].status = "rented"
  /\ \E q \in PaymentIds :
       LET rr == payments[q].rental_request_id IN
       /\ payments[q].payment_status = "completed"
       /\ rr # id
       /\ rentalRequests[rr].product_id = product_id
       /\ rentalRequests[rr].status = "active"

\* slot p takes a step of a handler of kind op
HandlerStep(p, op) == pc'[p] # pc[p] /\ loc'[p].op = op

\* C1: in every reachable state, whatever the interleaving of createPayment
\* calls, at most one Payment row references a given rental request.
C1_OnePaymentPerRequest ==
  \A rr \in RequestIds : Cardinality(existingPayment(rr)) <= 1

\* the race of C1 has happened: two createPayment calls both passed the
\* existence check, one inserted its row and the other's insert was refused
C1_Witness ==
  \E p \in Procs : /\ Responded(p, "pay")
                    /\ loc[p].error = "P2002"
                    /\ Cardinality(existingPayment(loc[p].id)) = 1

\* C2: a createPayment call of the request's customer with a valid method
\* that loses to another createPayment for the same request fails with
\* DuplicatePayment, never with a generic internal error (provider and
\* database outages set aside): it succeeds or it reports the duplicate.
C2_LoserGetsDuplicatePayment ==
  \A p \in Procs :
    ( /\ Responded(p, "pay")
      /\ loc[p].id \in RequestIds
      /\ loc[p].status \in PaymentMethods
      /\ loc[p].actor = rentalRequests[loc[p].id].customer_id
      /\ loc[p].error \notin {"StripeError", "PrismaError"} )
    => (loc[p].resp.status = 201 \/ loc[p].resp = DuplicatePayment)

\* C3: in every reachable state no two rental requests of the same product
\* that are both accepted, active or paid have overlapping half-open ranges.
C3_NoDoubleBooking ==
  \A i \in RequestIds : \A j \in Holders(rentalRequests[i].product_id) :
    (i # j /\ rentalRequests[i].status \in BlockingStatuses)
    => ~( /\ rentalRequests[i].start_date < rentalRequests[j].end_date
          /\ rentalRequests[j].start_date < rentalRequests[i].end_date )

\* C4 (as claimed): a create whose range overlaps an accepted, active or paid
\* request of the product is rejected with 409 Conflict and creates nothing,
\* while a create by a user other than the owner whose range starts where
\* such a request ends, and overlaps none, passes the guards and is inserted.
C4_OverlapRejectedAdjacentAccepted ==
  [][\A p \in Procs : CreateDecides(p) =>
       LET l == loc[p]
           holders == Holders(l.product_id)
           overlapping == \E i \in holders :
                            /\ l.start_date < rentalRequests[i].end_date
                            /\ rentalRequests[i].start_date < l.end_date
           adjacent == \E i \in holders : l.start_date = rentalRequests[i].end_date
       IN
       /\ overlapping =>
            /\ pc'[p] = "done" /\ loc'[p].resp.status = 409
            /\ rentalRequests' = rentalRequests
       /\ (adjacent /\ ~overlapping /\ l.actor # product_user_id(l.product_id))
          => pc'[p] = "cr_insert"]_vars

\* C4 (amended): a create whose range overlaps an accepted, active or paid
\* request of the product is rejected with 409 Conflict and creates nothing;
\* a create by a user other than the owner whose range starts where such a
\* request ends, and overlaps none, passes the guards and is inserted
\* provided the product's status was read as available, and is rejected
\* with 400 when it was not.
C4_AdjacentAcceptedWhenAvailable ==
  [][\A p \in Procs : CreateDecides(p) =>
       LET l == loc[p]
           holders == Holders(l.product_id)
           overlapping == \E i \in holders :
                            /\ l.start_date < rentalRequests[i].end_date
                            /\ rentalRequests[i].start_date < l.end_date
           adjacent == \E i \in holders : l.start_date = rentalRequests[i].end_date
       IN
       /\ overlapping =>
            /\ pc'[p] = "done" /\ loc'[p].resp.status = 409
            /\ rentalRequests' = rentalRequests
       /\ (adjacent /\ ~overlapping /\ l.actor # product_user_id(l.product_id))
          => IF l.snap = "available"
               THEN pc'[p] = "cr_insert"
               ELSE pc'[p] = "done" /\ loc'[p].resp.status = 400]_vars

\* a create with a range adjacent to an existing holder's has been inserted
C4_Witness ==
  \E p \in Procs :
    /\ Responded(p, "create") /\ loc[p].resp.status = 201
    /\ \E i \in Holders(loc[p].product_id) :
         i # loc[p].id /\ rentalRequests[i].end_date = loc[p].start_date

\* C5: in every reachable state a product's status is rented iff exactly one
\* rental request whose status is not completed, returned, rejected or
\* cancelled holds it.
C5_RentedIffOneHolder ==
  \A product_id \in Products :
    products[product_id].status = "rented"
      <=> Cardinality({i \in RequestIds :
                         /\ rentalRequests[i].product_id = product_id
                         /\ rentalRequests[i].status \notin TerminalStatuses}) = 1

\* C6: confirmPayment with completed on a payment that is already completed
\* changes nothing: no write to Payment (timestamp), RentalRequest, Product
\* or Invoice and no further notification.
C6_SecondConfirmIsNoOp ==
  [][\A p \in Procs :
       ( /\ pc[p] \in ConfirmSteps /\ pc'[p] # pc[p]
         /\ loc[p].status = "completed" /\ loc[p].snap = "completed" )
       => UNCHANGED <<payments, rentalRequests, products, invoices, notifications>>]_vars

\* C7: whenever confirmPayment sets a payment of any method to completed and
\* answers success, the payment has its timestamp, its rental request is
\* active, the product is rented and the request's invoice, if any, is paid.
C7_CompletedCascade ==
  \A p \in Procs :
    ( /\ Responded(p, "confirm") /\ loc[p].status = "completed"
      /\ loc[p].resp.status = 200 )
    => LET pay == payments[loc[p].id]
           rr == rentalRequests[pay.rental_request_id] IN
       /\ pay.payment_status = "completed" /\ pay.payment_date # 0
       /\ rr.status = "active"
       /\ products[rr.product_id].status = "rented"
       /\ invoices[pay.rental_request_id].invoice_status \in {"none", "paid"}

\* C8: a confirmPayment to completed that fails at a step of its cascade is
\* rolled back: it does not leave the payment completed while the rental
\* request is not active or the product is not rented.
C8_FailedCascadeRolledBack ==
  \A p \in Procs :
    ( /\ Responded(p, "confirm") /\ loc[p].status = "completed"
      /\ loc[p].snap # "completed" /\ loc[p].resp.status = 500 )
    => LET pay == payments[loc[p].id]
           rr == rentalRequests[pay.rental_request_id] IN
       ~( /\ pay.payment_status = "completed"
          /\ (rr.status # "active" \/ products[rr.product_id].status # "rented") )

\* C9: the product update of a status update (reject, cancel, return,
\* complete) of one rental request leaves the product rented when it is
\* rented to a different request through that request's completed payment.
C9_UpdateKeepsOthersRental ==
  [][\A p \in Procs :
       ( /\ pc[p] = "us_product" /\ pc'[p] # "us_product"
         /\ RentedByOther(loc[p].id, loc[p].product_id) )
       => products'[loc[p].product_id].status = "rented"]_vars

\* C10: once a rental request's status is completed, returned, rejected or
\* cancelled no operation changes it again.
C10_TerminalIsFinal ==
  [][\A i \in RequestIds :
       rentalRequests[i].status \in TerminalStatuses
       => rentalRequests'[i].status = rentalRequests[i].status]_vars

\* C11: a status update to accepted or rejected changes the request's
\* status only when the actor is the product's owner and the current status
\* is pending; in every other case the status is unchanged.
C11_ApproveRejectByOwnerWhilePending ==
  [][\A p \in Procs :
       ( /\ pc[p] = "us_update" /\ pc'[p] # "us_update"
         /\ loc[p].status \in {"accepted", "rejected"}
         /\ ~( /\ loc[p].actor = product_user_id(loc[p].product_id)
               /\ rentalRequests[loc[p].id].status = "pending" ) )
       => rentalRequests' = rentalRequests]_vars

\* C12: a status update to returned or completed is applied only from
\* accepted, active or paid, and every successful status update to returned,
\* completed, rejected or cancelled leaves the product available.
C12_ReturnFromHeldAndRelease ==
  [][\A p \in Procs :
       /\ ( /\ pc[p] = "us_update" /\ pc'[p] # "us_update"
            /\ loc[p].status \in {"returned", "completed"}
            /\ rentalRequests[loc[p].id].status \notin BlockingStatuses )
          => rentalRequests' = rentalRequests
       /\ ( /\ pc[p] = "us_product" /\ pc'[p] = "done"
            /\ loc'[p].resp.status = 200 )
          => products'[loc[p].product_id].status = "available"]_vars

\* C13: a status update on an existing rental request by an authenticated
\* user who is neither its customer nor the owner of its product answers 403
\* Forbidden and leaves the RentalRequest and the Product unchanged.
C13_StrangerUpdateForbidden ==
  [][\A p \in Procs :
       ( /\ HandlerStep(p, "update")
         /\ loc'[p].actor \in Users /\ loc'[p].id \in RequestIds
         /\ loc'[p].actor # rentalRequests[loc'[p].id].customer_id
         /\ loc'[p].actor # product_user_id(rentalRequests[loc'[p].id].product_id) )
       => /\ pc'[p] = "done" /\ loc'[p].resp.status = 403
          /\ UNCHANGED <<rentalRequests, products>>]_vars

\* a stranger's status update on an existing request has been answered
C13_Witness ==
  \E p \in Procs :
    /\ Responded(p, "update") /\ loc[p].resp.status = 403
    /\ loc[p].id \in RequestIds /\ loc[p].actor = "bob"

\* C14: confirmPayment (with a status of completed, failed or refunded) on an
\* offline payment by an authenticated user other than the owner of the
\* product answers 403 Forbidden and changes neither the Payment nor the
\* RentalRequest, the Product or the Invoice.
C14_OfflineConfirmOwnerOnly ==
  [][\A p \in Procs :
       ( /\ HandlerStep(p, "confirm")
         /\ loc'[p].actor \in Users /\ loc'[p].id \in PaymentIds
         /\ loc'[p].status \in PaymentStatuses
         /\ payments[loc'[p].id].payment_method = "offline"
         /\ loc'[p].actor # product_user_id(
               rentalRequests[payments[loc'[p].id].rental_request_id].product_id) )
       => /\ pc'[p] = "done" /\ loc'[p].resp.status = 403
          /\ UNCHANGED <<payments, rentalRequests, products, invoices>>]_vars

\* the customer's attempt to confirm their own offline payment has been answered
C14_Witness ==
  \E p \in Procs :
    /\ Responded(p, "confirm") /\ loc[p].resp.status = 403
    /\ loc[p].id \in PaymentIds /\ loc[p].status = "completed"
    /\ payments[loc[p].id].payment_method = "offline"
    /\ payments[loc[p].id].payment_status = "pending"
    /\ loc[p].actor = rentalRequests[payments[loc[p].id].rental_request_id].customer_id

\* C16: the amount of every Payment row equals the price of the rental
\* request it references, whatever amount the request body carried.
C16_AmountIsRequestPrice ==
  \A q \in PaymentIds :
    payments[q].amount = rentalRequests[payments[q].rental_request_id].price

\* a payment was created from a body that carried an amount other than the price
C16_Witness ==
  \E p \in Procs :
    /\ Responded(p, "pay") /\ loc[p].resp.status = 201
    /\ loc[p].amount # 0 /\ loc[p].amount # rentalRequests[loc[p].id].price
    /\ existingPayment(loc[p].id) # {}

\* C17: when the payment-intent call of a createPayment with an online method
\* fails, the call answers an error and no Payment row exists for the rental
\* request; a createPayment is refused as a duplicate only when a Payment row
\* exists, so a later createPayment for that request is not.
C17_IntentFailureLeavesNoPayment ==
  [][\A p \in Procs :
       /\ (pc[p] = "cp_intent" /\ pc'[p] = "done")
          => /\ loc'[p].resp.status >= 400
             /\ payments' = payments
             /\ existingPayment(loc[p].id) = {}
       /\ ( /\ HandlerStep(p, "pay") /\ pc'[p] = "done"
            /\ loc'[p].resp = DuplicatePayment )
          => existingPayment(loc'[p].id) # {}]_vars

\* a createPayment has failed at the provider
C17_Witness ==
  \E p \in Procs :
    /\ Responded(p, "pay") /\ loc[p].error = "StripeError"
    /\ loc[p].status # "offline" /\ existingPayment(loc[p].id) = {}

\* C18: a createPayment with method offline creates no payment intent and
\* leaves RentalRequest, Product and Invoice unchanged; when it succeeds it
\* has added one Payment row with status pending and no transaction reference.
C18_OfflinePaymentPending ==
  [][\A p \in Procs :
       (HandlerStep(p, "pay") /\ loc'[p].status = "offline")
       => /\ paymentIntents' = paymentIntents
          /\ UNCHANGED <<rentalRequests, products, invoices>>
          /\ (pc'[p] = "done" /\ loc'[p].resp.status = 201)
             => /\ Len(payments') = Len(payments) + 1
                /\ LET row == payments'[Len(payments')] IN
                   /\ row.rental_request_id = loc[p].id
                   /\ row.payment_method = "offline"
                   /\ row.payment_status = "pending"
                   /\ row.transaction_id = 0
                   /\ row.payment_date = 0]_vars

\* an offline createPayment has succeeded
C18_Witness ==
  \E p \in Procs :
    /\ Responded(p, "pay") /\ loc[p].resp.status = 201
    /\ loc[p].status = "offline"
    /\ \E q \in existingPayment(loc[p].id) : payments[q].payment_status = "pending"

\* C15: every step of an operation invoked without a valid identity answers
\* 401 at once and changes no table.
C15_AnonymousUnauthorized ==
  [][\A p \in Procs :
       (pc'[p] # pc[p] /\ loc'[p].op # "none" /\ loc'[p].actor = NoUser)
       => /\ pc'[p] = "done"
          /\ loc'[p].resp.status = 401
          /\ UNCHANGED <<db, returns, calls>>]_vars

\* C19: a createPayment with a valid method for an existing rental request by
\* a user who is not its customer, and a createDamageAssessment for an
\* existing return by a user who is not the owner of the product (the customer
\* included), are answered 403 at once and create no Payment, no payment
\* intent and no DamageAssessment.
C19_RoleRestrictedCreations ==
  [][\A p \in Procs :
       /\ ( /\ HandlerStep(p, "pay")
            /\ loc'[p].actor \in Users
            /\ loc'[p].status \in PaymentMethods
            /\ loc'[p].id \in RequestIds
            /\ loc'[p].actor # rentalRequests[loc'[p].id].customer_id )
          => /\ pc'[p] = "done"
             /\ loc'[p].resp.status = 403
             /\ UNCHANGED <<payments, paymentIntents>>
       /\ ( /\ HandlerStep(p, "damage")
            /\ loc'[p].actor \in Users
            /\ loc'[p].id \in ReturnIds
            /\ loc'[p].actor #
                 product_user_id(rentalRequests[productReturns[loc'[p].id].rental_request_id].product_id) )
          => /\ pc'[p] = "done"
             /\ loc'[p].resp.status = 403
             /\ UNCHANGED damageAssessments]_vars

\* the customer of a returned rental has asked for a damage assessment and is
\* answered 403; the return has no assessment
C19_Witness ==
  \E p \in Procs :
    /\ Responded(p, "damage") /\ loc[p].resp.status = 403
    /\ loc[p].id \in ReturnIds
    /\ loc[p].actor = rentalRequests[productReturns[loc[p].id].rental_request_id].customer_id
    /\ existingAssessment(loc[p].id) = {}

\* C20: in every reachable state a ProductReturn has at most one
\* DamageAssessment, and a createDamageAssessment of the owner with a valid
\* body that creates nothing (database outages set aside) is answered
\* AlreadyExists, never a generic internal error.
C20_OneAssessmentElseAlreadyExists ==
  /\ \A r \in ReturnIds : Cardinality(existingAssessment(r)) <= 1
  /\ \A p \in Procs :
       ( /\ Responded(p, "damage")
         /\ loc[p].id \in ReturnIds
         /\ loc[p].actor = returnOwner(loc[p].id)
         /\ loc[p].status = "valid"
         /\ loc[p].error # "PrismaError"
         /\ loc[p].resp.status # 201 )
       => loc[p].resp = AssessmentExists

\* handleReturnConfirmation in slot p has ended without setting an error
ReturnReportsSuccess(p) ==
  /\ Responded(p, "return")
  /\ loc[p].error \notin {"Please log in to confirm return", "Failed to confirm return"}

\* C21: when a confirmReturn has ended, reporting success or not, a completed
\* ProductReturn comes with a completed RentalRequest and a Product that is
\* not rented; after one that reports success the ProductReturn is completed
\* as well.
C21_ConfirmReturnCompletesAll ==
  \A p \in Procs :
    Responded(p, "return") =>
      /\ ReturnReportsSuccess(p) =>
           \E i \in returnOf(loc[p].id) : productReturns[i].return_status = "completed"
      /\ \A i \in returnOf(loc[p].id) :
           productReturns[i].return_status = "completed"
           => /\ rentalRequests[loc[p].id].status = "completed"
              /\ products[rentalRequests[loc[p].id].product_id].status = "available"

DispatchSteps == {"cr_insert", "us_update", "us_product", "cf_invoice"}

\* C23: a step of create, status update or confirmPayment that dispatches a
\* notification and meets no database error answers success and leaves its
\* transition persisted, whether the dispatch succeeds or fails; a failed
\* dispatch only leaves the notification out.
C23_DispatchFailureContained ==
  [][\A p \in Procs :
       ( /\ pc[p] \in DispatchSteps /\ pc'[p] = "done"
         /\ loc[p].op \in {"create", "update", "confirm"}
         /\ loc'[p].error = "" )
       => /\ loc'[p].resp.status = (IF pc[p] = "cr_insert" THEN 201 ELSE 200)
          /\ ~notifierUp => notifications' = notifications
          /\ pc[p] = "cr_insert" =>
               /\ Len(rentalRequests') = Len(rentalRequests) + 1
               /\ loc'[p].id = Len(rentalRequests')
          /\ pc[p] = "us_update" =>
               rentalRequests'[loc[p].id].status = loc[p].status
          /\ pc[p] = "us_product" =>
               /\ rentalRequests'[loc[p].id].status = loc[p].status
               /\ products'[loc[p].product_id].status = "available"
          /\ pc[p] = "cf_invoice" =>
               LET rr == payments[loc[p].id].rental_request_id IN
               /\ payments'[loc[p].id].payment_status = "completed"
               /\ rentalRequests'[rr].status = "active"
               /\ products'[rentalRequests[rr].product_id].status = "rented"
               /\ invoices'[rr].invoice_status \in {"none", "paid"}]_vars

\* an offline payment has been confirmed while every dispatch failed: the
\* answer is 200 and no notification exists
C23_Witness ==
  \E p \in Procs :
    /\ ~notifierUp
    /\ Responded(p, "confirm") /\ loc[p].resp.status = 200
    /\ payments[loc[p].id].payment_method = "offline"
    /\ payments[loc[p].id].payment_status = "completed"
    /\ rentalRequests[payments[loc[p].id].rental_request_id].status = "active"
    /\ \A t \in NotificationTypes : notifications[t] = 0

\* C24: no call of a notify<Event> operation throws to its caller, whether
\* creating the notification or sending the email fails.
C24_NotifyNeverThrows == ~notifyCall.thrown

\* C25: no step of a create whose start is not before its end, whose product
\* does not exist, whose product is not available or whose caller owns the
\* product adds a RentalRequest or changes a Product, and its response is a
\* failure.
C25_CreateGuardsPersistNothing ==
  [][\A p \in Procs :
       ( /\ HandlerStep(p, "create")
         /\ \/ loc'[p].start_date >= loc'[p].end_date
            \/ loc'[p].product_id \notin Products
            \/ /\ loc'[p].product_id \in Products
               /\ \/ products[loc'[p].product_id].status # "available"
                  \/ loc'[p].actor = product_user_id(loc'[p].product_id) )
       => /\ UNCHANGED <<rentalRequests, products>>
          /\ pc'[p] \notin {"cr_insert"}
          /\ pc'[p] = "done" => loc'[p].resp.status \in 400..499]_vars

\* a create for a product that is rented has been refused
C25_Witness ==
  \E p \in Procs :
    /\ Responded(p, "create")
    /\ loc[p].start_date < loc[p].end_date
    /\ loc[p].product_id \in Products
    /\ loc[p].actor # product_user_id(loc[p].product_id)
    /\ products[loc[p].product_id].status = "rented"
    /\ loc[p].resp = Resp(400, "Product is not available for rent")

\* C26: the step of a create that answers 201 appends exactly one
\* RentalRequest, with status accepted, the caller as customer, the submitted
\* product and dates and the price and period the server computes from them;
\* it leaves every Product and every other RentalRequest unchanged.
C26_CreatePersistsOneAccepted ==
  [][\A p \in Procs :
       ( /\ HandlerStep(p, "create") /\ pc'[p] = "done"
         /\ loc'[p].resp.status = 201 )
       => /\ Len(rentalRequests') = Len(rentalRequests) + 1
          /\ \A i \in RequestIds : rentalRequests'[i] = rentalRequests[i]
          /\ products' = products
          /\ LET row == rentalRequests'[Len(rentalRequests')]
                 l == loc[p] IN
             /\ loc'[p].id = Len(rentalRequests')
             /\ row.status = "accepted"
             /\ row.customer_id = l.actor
             /\ row.product_id = l.product_id
             /\ row.start_date = l.start_date /\ row.end_date = l.end_date
             /\ row.rental_period = rentalPeriod(l.start_date, l.end_date, l.rental_period)
             /\ row.price = rentalPeriod(l.start_date, l.end_date, l.rental_period)
                              * rental_price(l.product_id) * UnitMultiplier(l.rental_period)]_vars

\* a second request has been created next to an existing one
C26_Witness ==
  \E p \in Procs :
    /\ Responded(p, "create") /\ loc[p].resp.status = 201
    /\ loc[p].id = 2 /\ Len(rentalRequests) = 2
    /\ rentalRequests[2].customer_id = loc[p].actor

\* the unit lengths of C27, in hours, an unknown unit counting as a day
C27_UnitLength(unit) ==
  CASE unit = "hourly" -> 1
    [] unit = "weekly" -> 7 * 24
    [] unit = "monthly" -> 30 * 24
    [] unit = "quarterly" -> 90 * 24
    [] unit = "yearly" -> 365 * 24
    [] OTHER -> 24

C27_Multiplier(unit) ==
  CASE unit = "weekly" -> 7
    [] unit = "monthly" -> 30
    [] unit = "quarterly" -> 90
    [] unit = "yearly" -> 365
    [] OTHER -> 1

\* C27: for every rate, every range with start before end and every unit the
\* computed period count is the least whole number of units that covers the
\* range, and the price is period count * rate * unit multiplier; rate 10
\* daily over 3 days gives 3 and 30, rate 10 weekly over 10 days gives 2 and
\* 140, rate 20 daily over 2 days gives 2 and 40.
C27_PeriodAndPrice ==
  quote.rentalPeriod # 0 =>
    LET duration == quote.end_date - quote.start_date
        n == quote.rentalPeriod IN
    /\ (n - 1) * C27_UnitLength(quote.rental_period) < duration
    /\ duration <= n * C27_UnitLength(quote.rental_period)
    /\ quote.price = n * quote.rate * C27_Multiplier(quote.rental_period)
    /\ (quote.rate = 10 /\ quote.rental_period = "daily" /\ duration = 3 * 24)
         => (n = 3 /\ quote.price = 30)
    /\ (quote.rate = 10 /\ quote.rental_period = "weekly" /\ duration = 10 * 24)
         => (n = 2 /\ quote.price = 140)
    /\ (quote.rate = 20 /\ quote.rental_period = "daily" /\ duration = 2 * 24)
         => (n = 2 /\ quote.price = 40)

\* the weekly example has been computed
C27_Witness ==
  /\ quote.rate = 10 /\ quote.rental_period = "weekly"
  /\ quote.end_date - quote.start_date = 10 * 24
  /\ quote.rentalPeriod = 2 /\ quote.price = 140

\* C28: after every step each RentalRequest has its start before its end, a
\* period count of at least 1 and a price above 0; a step never changes the
\* price, period or dates of an existing RentalRequest; and no step of a
\* create whose computed period count or price is not positive adds a
\* RentalRequest: such a create is answered with a failure.
C28_PositivePriceAndFrozenTerms ==
  [][/\ \A i \in 1..Len(rentalRequests') :
          /\ rentalRequests'[i].start_date < rentalRequests'[i].end_date
          /\ rentalRequests'[i].rental_period >= 1
          /\ rentalRequests'[i].price > 0
     /\ \A i \in RequestIds :
          /\ rentalRequests'[i].price = rentalRequests[i].price
          /\ rentalRequests'[i].rental_period = rentalRequests[i].rental_period
          /\ rentalRequests'[i].start_date = rentalRequests[i].start_date
          /\ rentalRequests'[i].end_date = rentalRequests[i].end_date
     /\ \A p \in Procs :
          ( /\ HandlerStep(p, "create")
            /\ loc'[p].product_id \in Products
            /\ loc'[p].start_date < loc'[p].end_date
            /\ LET n == loc'[p].end_date - loc'[p].start_date IN
               \/ n <= 0
               \/ n * products[loc'[p].product_id].rental_price <= 0 )
          => /\ rentalRequests' = rentalRequests
             /\ pc'[p] # "cr_insert"
             /\ pc'[p] = "done" => loc'[p].resp.status \in 400..499]_vars

\* a create for a product with rate 0 has been refused for its price
C28_Witness ==
  \E p \in Procs :
    /\ Responded(p, "create")
    /\ loc[p].product_id \in Products
    /\ products[loc[p].product_id].rental_price = 0
    /\ loc[p].resp = Resp(400, "Invalid rental period or calculated price")
    /\ rentalRequests = <<>>

\* C29: the availability query answers for a product with exactly the ranges
\* of the product's requests whose status is accepted, active or paid, the
\* requests the overlap query of create looks at.
C29_AvailabilityMatchesCreate ==
  \A p \in Procs :
    (Responded(p, "availability") /\ loc[p].resp.status = 200)
    => loc[p].ranges =
         {unavailableRange(rentalRequests[i]) : i \in Holders(loc[p].product_id)}

C32_FilterIsHalfOpenOverlap ==
  [][overlapCall'.computed =>
       (overlapCall'.selected
          <=> /\ overlapCall.start_date < overlapCall.requestEndDate
              /\ overlapCall.requestStartDate < overlapCall.end_date)]_vars

\* the filter has passed over a stored row that ends where the requested
\* range starts
C32_Witness ==
  /\ overlapCall.computed /\ ~overlapCall.selected
  /\ overlapCall.end_date = overlapCall.requestStartDate

\* C33: every step of a confirmPayment for an existing Payment, with a valid
\* status, by a user who is neither the customer of its rental request nor
\* the owner of the product answers 403 Forbidden and leaves the Payment rows
\* unchanged, whatever the payment method.
C33_StrangerCannotConfirm ==
  [][\A p \in Procs :
       ( /\ HandlerStep(p, "confirm")
         /\ loc'[p].actor \in Users
         /\ loc'[p].status \in PaymentStatuses
         /\ loc'[p].id \in PaymentIds
         /\ LET rr == payments[loc'[p].id].rental_request_id IN
            /\ loc'[p].actor # rentalRequests[rr].customer_id
            /\ loc'[p].actor # product_user_id(rentalRequests[rr].product_id) )
       => /\ payments' = payments
          /\ pc'[p] = "done"
          /\ loc'[p].resp.status = 403]_vars

\* C34: in every reachable state each payment intent created at the provider
\* is the transaction reference of a Payment row, or is held by the
\* createPayment call that created it and has yet to insert its row.
C34_EveryIntentReferenced ==
  \A t \in 1..paymentIntents :
    \/ \E q \in PaymentIds : payments[q].transaction_id = t
    \/ \E p \in Procs : pc[p] = "cp_create" /\ loc[p].txn = t

\* C35: the active-rentals list answered to a caller holds every rental
\* request of the caller whose status is accepted, active or paid and that
\* has no ProductReturn.
C35_ReturnableRentalsListed ==
  \A p \in Procs :
    (Responded(p, "active") /\ loc[p].resp.status = 200)
    => \A i \in RequestIds :
         ( /\ rentalRequests[i].customer_id = loc[p].actor
           /\ rentalRequests[i].status \in {"accepted", "active", "paid"}
           /\ returnOf(i) = {} )
         => i \in loc[p].activeRentals

\* C36: in every reachable state the payment_date of a Payment is set exactly
\* when its status is completed: a pending, failed or refunded Payment has
\* none.
C36_PaymentDateIffCompleted ==
  \A q \in PaymentIds :
    payments[q].payment_date # 0 <=> payments[q].payment_status = "completed"

\* a Payment that was completed has been set to failed or refunded and its
\* date cleared
C36_Witness ==
  \E q \in PaymentIds :
    /\ payments[q].payment_status \in {"failed", "refunded"}
    /\ payments[q].payment_date = 0
    /\ rentalRequests[payments[q].rental_request_id].status = "active"

\* C37: a step of a confirmPayment with status failed or refunded changes
\* nothing but the status and the date of that Payment: RentalRequest,
\* Product and Invoice rows stay as they are and no notification is sent.
C37_FailedRefundedTouchPaymentOnly ==
  [][\A p \in Procs :
       ( /\ HandlerStep(p, "confirm")
         /\ loc'[p].status \in {"failed", "refunded"} )
       => /\ UNCHANGED <<rentalRequests, products, invoices, notifications,
                         paymentIntents, returns>>
          /\ Len(payments') = Len(payments)
          /\ \A q \in PaymentIds :
               \/ payments'[q] = payments[q]
               \/ /\ q = loc'[p].id
                  /\ payments'[q] = [payments[q] EXCEPT
                                       !.payment_status = loc'[p].status,
                                       !.payment_date = 0]]_vars

\* a completed offline Payment has been set to failed or refunded while its
\* rental stays active and the product rented
C37_Witness ==
  \E p \in Procs :
    /\ Responded(p, "confirm") /\ loc[p].resp.status = 200
    /\ loc[p].status \in {"failed", "refunded"}
    /\ loc[p].snap = "completed"
    /\ payments[loc[p].id].payment_method = "offline"
    /\ payments[loc[p].id].payment_status = loc[p].status
    /\ rentalRequests[payments[loc[p].id].rental_request_id].status = "active"
    /\ products[rentalRequests[payments[loc[p].id].rental_request_id].product_id].status
         = "rented"

C39_LoggedOutStateEmpty ==
  (mounted /\ user = NoSession)
  => /\ clientNotifications = <<>>
     /\ unreadNotificationsCount = 0
     /\ ownerPendingCount = 0

\* C40: a notification emitted on the connected socket of the logged-in user
\* is eventually handled by handleNotification, which adds it to the list and
\* counts it as unread, unless the user logs out first.
C40_PushEventuallyHandled ==
  \A n \in 1..MaxPushed :
    (n \in pushes) ~> (n \in received \/ user = NoSession)
====
